---- MODULE Spec2Model ----
(***************************************************************************)
(* Model of the nested action registry of Review Board                     *)
(* (reviewboard/actions/registry.py) and of the calls made on it.          *)
(*                                                                         *)
(* An action instance is a record [action_id, tag]: two instances with the *)
(* same action_id and different tags are two Python objects that share an  *)
(* action_id.  Positive tags are instances built by get_defaults() (the    *)
(* tag is the number of the get_defaults() call that built them), negative *)
(* tags are instances built by extension code.                             *)
(***************************************************************************)
EXTENDS Integers, Sequences, FiniteSets, TLC

VARIABLES
    cls,        \* the class of the registry object (fixes get_defaults)
    registry,   \* _registry['action_id']: action_id -> action
    items,      \* _items: the set of registered actions
    children,   \* _children: OrderedDict, root action_id -> list of child ids
    parents,    \* _parents: child action_id -> parent action_id
    populated,  \* _populated
    gen,        \* number of get_defaults() calls so far
    lastCall,   \* the last call made on the registry and how it ended
    pre,        \* the registry's fields when that call was made
    thr,        \* per thread: the statements its call has still to run
    ncalls      \* number of calls the threads have started

vars == <<cls, registry, items, children, parents, populated, gen, lastCall,
          pre, thr, ncalls>>

(* ----------------------------- bounds ---------------------------------- *)

\* Number of times get_defaults() may run (populations of one registry).
MaxGen == 2

\* Number of request or extension-loading threads that use the registry.
NumThreads == 2

\* Number of calls the threads start, all together.
MaxCalls == 3

\* How many frames a call stack may hold (the interpreter's recursion
\* limit).
MaxDepth == 8

(* --------------------------- value domains ----------------------------- *)

Ids == {"menu-action", "nested-item", "top-level-item", "item-action"}

\* Python's None, as an action_id and as an action.
None == "None"

NoAction == [action_id |-> None, tag |-> 0]

NoErr == "NoErr"

AlreadyRegisteredError == "AlreadyRegisteredError"

KeyError == "KeyError"

DepthLimitExceededError == "DepthLimitExceededError"

ValueError == "ValueError"

\* Tags of the instances built by extension code, one per action_id.
ExtTags == {0 - 1}

Tags == (1..MaxGen) \cup ExtTags

BaseAction == [action_id : Ids, tag : Tags]

RegistryClasses == {"ActionRegistry", "TestingActionRegistry"}

(* ------------------------- OrderedDict helpers ------------------------- *)
\* An OrderedDict is a sequence of [key, val] records, in insertion order.

SeqToSet(s) == {s[i] : i \in 1..Len(s)}

OdKeys(od) == [i \in 1..Len(od) |-> od[i].key]

OdHas(od, k) == \E i \in 1..Len(od) : od[i].key = k

OdGet(od, k) == (CHOOSE e \in SeqToSet(od) : e.key = k).val

OdSet(od, k, v) ==
    IF OdHas(od, k)
    THEN [i \in 1..Len(od) |-> IF od[i].key = k THEN [key |-> k, val |-> v]
                                                 ELSE od[i]]
    ELSE Append(od, [key |-> k, val |-> v])

OdDel(od, k) == SelectSeq(od, LAMBDA e : e.key # k)

\* list.remove(x): drops the first occurrence of x.
ListRemove(l, x) ==
    LET i == CHOOSE j \in 1..Len(l) : l[j] = x /\ \A m \in 1..(j - 1) : l[m] # x
    IN  SubSeq(l, 1, i - 1) \o SubSeq(l, i + 1, Len(l))

\* dict without key k
DictDel(d, k) == [x \in (DOMAIN d) \ {k} |-> d[x]]

DictSet(d, k, v) == [x \in (DOMAIN d) \cup {k} |-> IF x = k THEN v ELSE d[x]]

EmptyDict == << >>

(* ------------------------------ defaults ------------------------------- *)

\* What get_defaults() returns for a registry of class c when it is called
\* for the g-th time: a list of entries, a parent with its children or a
\* bare action.  Each call builds new instances.
\* FaultyActionRegistry is a subclass whose list names the menu's child a
\* second time, as an entry of its own, before its last entry.
get_defaults(c, g) ==
    IF c = "TestingActionRegistry"
    THEN << [parent |-> [action_id |-> "menu-action", tag |-> g],
             children |-> << [action_id |-> "nested-item", tag |-> g] >>,
             tuple |-> TRUE],
            [parent |-> [action_id |-> "top-level-item", tag |-> g],
             children |-> << >>,
             tuple |-> FALSE] >>
    ELSE IF c = "ReviewRequestActionRegistry"
    THEN << [parent |-> [action_id |-> "close-review-request-action",
                         tag |-> g],
             children |-> << [action_id |-> "submit-review-request-action",
                              tag |-> g],
                             [action_id |-> "discard-review-request-action",
                              tag |-> g],
                             [action_id |-> "delete-review-request-action",
                              tag |-> g] >>,
             tuple |-> TRUE],
            [parent |-> [action_id |-> "update-review-request-action",
                         tag |-> g],
             children |-> << [action_id |-> "upload-diff-action", tag |-> g],
                             [action_id |-> "upload-file-action", tag |-> g] >>,
             tuple |-> TRUE],
            [parent |-> [action_id |-> "download-diff-action", tag |-> g],
             children |-> << >>, tuple |-> FALSE],
            [parent |-> [action_id |-> "review-action", tag |-> g],
             children |-> << >>, tuple |-> FALSE],
            [parent |-> [action_id |-> "general-comment-action", tag |-> g],
             children |-> << >>, tuple |-> FALSE],
            [parent |-> [action_id |-> "ship-it-action", tag |-> g],
             children |-> << >>, tuple |-> FALSE] >>
    ELSE IF c = "FaultyActionRegistry"
    THEN << [parent |-> [action_id |-> "menu-action", tag |-> g],
             children |-> << [action_id |-> "nested-item", tag |-> g] >>,
             tuple |-> TRUE],
            [parent |-> [action_id |-> "nested-item", tag |-> g],
             children |-> << >>,
             tuple |-> FALSE],
            [parent |-> [action_id |-> "top-level-item", tag |-> g],
             children |-> << >>,
             tuple |-> FALSE] >>
    ELSE << >>

(* --------------------------- registry calls ---------------------------- *)
\* A registry state is a record of the registry object's fields; a call
\* returns [st, err, val, seq]: the state it leaves, the exception it
\* raises (NoErr when it returns) and the action or the actions it returns.

Ok(s) == [st |-> s, err |-> NoErr, val |-> NoAction, seq |-> << >>]

Ret(s, v) == [st |-> s, err |-> NoErr, val |-> v, seq |-> << >>]

RetSeq(s, l) == [st |-> s, err |-> NoErr, val |-> NoAction, seq |-> l]

Raise(s, e) == [st |-> s, err |-> e, val |-> NoAction, seq |-> << >>]

\* Statement sequencing: an exception raised by r ends the call with the
\* state r left, otherwise K goes on from that state.
Then(r, K(_)) == IF r.err # NoErr THEN r ELSE K(r.st)

\* Every public method starts by populating the registry: register through
\* get_action or super().register, unregister through super().unregister,
\* the getters by their first statement.  populate() sets _populated before
\* it registers the first default, so the populate() calls nested in it
\* return at once.  The operators named *_populated and Registry_* are the
\* methods run on a registry whose flag is set, where populate() is a
\* no-op; the operators named after the methods populate first.

RECURSIVE RegisterAll(_, _, _)
RECURSIVE PopulateItems(_, _)
RECURSIVE PopulateItems_SkipFailed(_, _)
RECURSIVE unregister_populated(_, _)
RECURSIVE UnregisterChildren(_, _)
RECURSIVE UnregisterEach(_, _)

\* Registry.get (reviewboard.registries.registry) once populated: look the
\* value up; a failed lookup gives None instead of raising.
Registry_get(s, attr_value) ==
    IF attr_value \in DOMAIN s.registry
    THEN Ret(s, s.registry[attr_value])
    ELSE Ret(s, NoAction)

\* Registry.register (djblets) once populated: refuse a registered item or
\* a registered attribute value, then record the item.
Registry_register(s, item) ==
    IF item \in s.items
    THEN Raise(s, AlreadyRegisteredError)
    ELSE IF item.action_id \in DOMAIN s.registry
         THEN Raise(s, AlreadyRegisteredError)
    ELSE Ok([s EXCEPT !.registry = DictSet(@, item.action_id, item),
                      !.items = @ \cup {item}])

\* Registry.unregister (djblets) once populated: refuse an item that is
\* not registered, then drop it from the lookup mapping.
Registry_unregister(s, item) ==
    IF item \notin s.items
    THEN Raise(s, KeyError)
    ELSE Ok([s EXCEPT !.items = @ \ {item},
                      !.registry = DictDel(@, item.action_id)])

\* CheckParent without the depth check.
CheckParent_NoDepthCheck(s, parent_id) ==
    IF parent_id = None THEN Ok(s)
    ELSE IF Registry_get(s, parent_id).val = NoAction
         THEN Raise(s, KeyError)
    ELSE Ok(s)

\* CheckParent without the lookup of the parent.
CheckParent_NoLookup(s, parent_id) ==
    IF parent_id = None THEN Ok(s)
    ELSE IF ~OdHas(s.children, parent_id)
         THEN Raise(s, DepthLimitExceededError)
    ELSE Ok(s)

\* register, the checks on parent_id: the parent must be registered and
\* must be a root.
CheckParent(s, parent_id) ==
    IF parent_id = None THEN Ok(s)
    ELSE IF Registry_get(s, parent_id).val = NoAction
         THEN Raise(s, KeyError)
    ELSE IF ~OdHas(s.children, parent_id)
         THEN Raise(s, DepthLimitExceededError)
    ELSE Ok(s)

\* AppendChild putting the child at the head of the list.
AppendChild_Prepend(s, parent_id, child_id) ==
    IF ~OdHas(s.children, parent_id)
    THEN Raise(s, KeyError)
    ELSE Ok([s EXCEPT !.children = OdSet(@, parent_id,
                                         <<child_id>>
                                         \o OdGet(@, parent_id))])

\* self._children[parent_id].append(child_id)
AppendChild(s, parent_id, child_id) ==
    IF ~OdHas(s.children, parent_id)
    THEN Raise(s, KeyError)
    ELSE Ok([s EXCEPT !.children = OdSet(@, parent_id,
                                         Append(OdGet(@, parent_id),
                                                child_id))])

\* LinkAction giving a child a list of its own as well.
LinkAction_AlsoRoot(s, action, parent_id) ==
    IF parent_id # None
    THEN Then(AppendChild(s, parent_id, action.action_id),
              LAMBDA s1 :
                Ok([s1 EXCEPT
                      !.parents = DictSet(@, action.action_id, parent_id),
                      !.children = OdSet(@, action.action_id, << >>)]))
    ELSE Ok([s EXCEPT !.children = OdSet(@, action.action_id, << >>)])

\* LinkAction recording the reverse link the wrong way round.
LinkAction_SwappedLink(s, action, parent_id) ==
    IF parent_id # None
    THEN Then(AppendChild(s, parent_id, action.action_id),
              LAMBDA s1 :
                Ok([s1 EXCEPT
                      !.parents = DictSet(@, parent_id, action.action_id)]))
    ELSE Ok([s EXCEPT !.children = OdSet(@, action.action_id, << >>)])

\* register, the index update: a child is appended to its parent's list
\* and gets its reverse link, a root gets an empty list of its own.
LinkAction(s, action, parent_id) ==
    IF parent_id # None
    THEN Then(AppendChild(s, parent_id, action.action_id),
              LAMBDA s1 :
                Ok([s1 EXCEPT
                      !.parents = DictSet(@, action.action_id, parent_id)]))
    ELSE Ok([s EXCEPT !.children = OdSet(@, action.action_id, << >>)])

\* register updating the indexes before the base class has accepted the
\* action.
register_populated_LinkFirst(s, action, parent_id) ==
    Then(CheckParent(s, parent_id),
         LAMBDA s1 :
           Then(LinkAction(s1, action, parent_id),
                LAMBDA s2 : Registry_register(s2, action)))

\* register calling the base class's register before it checks parent_id.
register_populated_RegisterFirst(s, action, parent_id) ==
    Then(Registry_register(s, action),
         LAMBDA s1 :
           Then(CheckParent(s1, parent_id),
                LAMBDA s2 : LinkAction(s2, action, parent_id)))

\* register once populated: the parent checks, the base class's register,
\* the index update.
register_populated(s, action, parent_id) ==
    Then(CheckParent(s, parent_id),
         LAMBDA s1 :
           Then(Registry_register(s1, action),
                LAMBDA s2 : LinkAction(s2, action, parent_id)))

\* for child in children: self.register(child, parent_id=parent.action_id)
RegisterAll(s, actions, parent_id) ==
    IF actions = << >> THEN Ok(s)
    ELSE Then(register_populated(s, Head(actions), parent_id),
              LAMBDA s1 : RegisterAll(s1, Tail(actions), parent_id))

\* PopulateItem registering the children of a pair as roots.
PopulateItem_Flat(s, item) ==
    IF item.tuple
    THEN Then(register_populated(s, item.parent, None),
              LAMBDA s1 : RegisterAll(s1, item.children, None))
    ELSE register_populated(s, item.parent, None)

\* populate, one entry of the defaults: a (parent, children) tuple or a
\* bare action.
PopulateItem(s, item) ==
    IF item.tuple
    THEN Then(register_populated(s, item.parent, None),
              LAMBDA s1 : RegisterAll(s1, item.children,
                                      item.parent.action_id))
    ELSE register_populated(s, item.parent, None)

\* The loop of populate going on with the next entry when one fails.
PopulateItems_SkipFailed(s, defaults) ==
    IF defaults = << >> THEN Ok(s)
    ELSE PopulateItems_SkipFailed(PopulateItem(s, Head(defaults)).st,
                                  Tail(defaults))

\* for item in self.get_defaults(): ...
PopulateItems(s, defaults) ==
    IF defaults = << >> THEN Ok(s)
    ELSE Then(PopulateItem(s, Head(defaults)),
              LAMBDA s1 : PopulateItems(s1, Tail(defaults)))

\* populate without the test of the flag.
populate_NoFlagTest(s) ==
    PopulateItems([s EXCEPT !.populated = TRUE,
                            !.gen = IF s.populated THEN @ ELSE @ + 1],
                  get_defaults(s.cls, IF s.populated THEN s.gen
                                      ELSE s.gen + 1))

populate(s) ==
    IF s.populated THEN Ok(s)
    ELSE PopulateItems([s EXCEPT !.populated = TRUE, !.gen = @ + 1],
                       get_defaults(s.cls, s.gen + 1))

register(s, action, parent_id) ==
    Then(populate(s), LAMBDA s1 : register_populated(s1, action, parent_id))

\* get_action handing out a copy of the registered action.
get_action_Copy(s, action_id) ==
    Then(populate(s),
         LAMBDA s1 : IF Registry_get(s1, action_id).val = NoAction
                     THEN Ret(s1, NoAction)
                     ELSE Ret(s1, [action_id |-> action_id, tag |-> 0]))

\* get_action raising the lookup error for an id that is not registered.
get_action_Raising(s, action_id) ==
    Then(populate(s),
         LAMBDA s1 : IF Registry_get(s1, action_id).val = NoAction
                     THEN Raise(s1, KeyError)
                     ELSE Registry_get(s1, action_id))

get_action(s, action_id) ==
    Then(populate(s), LAMBDA s1 : Registry_get(s1, action_id))

\* Registry.unregister_by_attr (djblets) once populated: look the item up,
\* unregister it.
Registry_unregister_by_attr(s, attr_value) ==
    unregister_populated(s, Registry_get(s, attr_value).val)

\* for child_id in list(child_ids): self.unregister_by_attr(...)
UnregisterChildren(s, child_ids) ==
    IF child_ids = << >> THEN Ok(s)
    ELSE Then(Registry_unregister_by_attr(s, Head(child_ids)),
              LAMBDA s1 : UnregisterChildren(s1, Tail(child_ids)))

\* del self._children[action_id]
DelChildren(s, action_id) ==
    IF ~OdHas(s.children, action_id)
    THEN Raise(s, KeyError)
    ELSE Ok([s EXCEPT !.children = OdDel(@, action_id)])

\* UnlinkRoot dropping the root's entry without unregistering its children.
UnlinkRoot_NoCascade(s, action) == DelChildren(s, action.action_id)

\* unregister of a root: unregister its children, then drop its entry.
UnlinkRoot(s, action) ==
    Then(UnregisterChildren(s, OdGet(s.children, action.action_id)),
         LAMBDA s1 : DelChildren(s1, action.action_id))

\* self._children[parent_id].remove(child_id)
RemoveChild(s, parent_id, child_id) ==
    IF ~OdHas(s.children, parent_id)
    THEN Raise(s, KeyError)
    ELSE IF child_id \notin SeqToSet(OdGet(s.children, parent_id))
         THEN Raise(s, ValueError)
    ELSE Ok([s EXCEPT !.children = OdSet(@, parent_id,
                                         ListRemove(OdGet(@, parent_id),
                                                    child_id))])

\* self._children[parent_id].pop()
PopChild(s, parent_id) ==
    IF ~OdHas(s.children, parent_id)
    THEN Raise(s, KeyError)
    ELSE IF OdGet(s.children, parent_id) = << >>
         THEN Raise(s, ValueError)
    ELSE Ok([s EXCEPT !.children = OdSet(@, parent_id,
                                         SubSeq(OdGet(@, parent_id), 1,
                                                Len(OdGet(@, parent_id)) - 1))])

\* UnlinkChild dropping the last child of the parent in place of the
\* unregistered one.
UnlinkChild_PopLast(s, action) ==
    IF action.action_id \notin DOMAIN s.parents
    THEN Raise(s, KeyError)
    ELSE PopChild([s EXCEPT !.parents = DictDel(@, action.action_id)],
                  s.parents[action.action_id])

\* UnlinkChild leaving the child in its parent's list.
UnlinkChild_KeepListed(s, action) ==
    IF action.action_id \notin DOMAIN s.parents
    THEN Raise(s, KeyError)
    ELSE Ok([s EXCEPT !.parents = DictDel(@, action.action_id)])

\* unregister of a child: drop its reverse link and its place in its
\* parent's list.
UnlinkChild(s, action) ==
    IF action.action_id \notin DOMAIN s.parents
    THEN Raise(s, KeyError)
    ELSE RemoveChild([s EXCEPT !.parents = DictDel(@, action.action_id)],
                     s.parents[action.action_id], action.action_id)

\* unregister, the cleanup of the indexes: of a root when the action has
\* an entry in _children, of a child otherwise.
Unlink(s, action) ==
    IF OdHas(s.children, action.action_id)
    THEN UnlinkRoot(s, action)
    ELSE UnlinkChild(s, action)

\* unregister cleaning the indexes before the base class has accepted the
\* removal.
unregister_populated_UnlinkFirst(s, action) ==
    Then(IF OdHas(s.children, action.action_id)
         THEN DelChildren(s, action.action_id)
         ELSE UnlinkChild(s, action),
         LAMBDA s1 : Registry_unregister(s1, action))

\* unregister once populated: the base class's unregister, then the
\* cleanup of the indexes.
unregister_populated(s, action) ==
    Then(Registry_unregister(s, action), LAMBDA s1 : Unlink(s1, action))

unregister(s, action) ==
    Then(populate(s), LAMBDA s1 : unregister_populated(s1, action))

\* The actions registered under the ids of a list, None for an id that
\* has none: what the getters yield while they walk the list.
Actions(s, ids) == [i \in 1..Len(ids) |-> Registry_get(s, ids[i]).val]

\* RootActions walking _children from its last key to its first.
RootActions_Reversed(s) ==
    RetSeq(s, [i \in 1..Len(OdKeys(s.children)) |->
                 Registry_get(s, OdKeys(s.children)[
                                   Len(OdKeys(s.children)) + 1 - i]).val])

\* The roots yielded while the index is consumed and refilled: the key
\* read first is put back last (popitem, then reinsertion).
RootActions_Rotating(s) ==
    IF s.children = << >> THEN RetSeq(s, << >>)
    ELSE RetSeq([s EXCEPT !.children = Tail(@) \o << Head(@) >>],
                Actions(s, OdKeys(s.children)))

\* get_root_actions once populated.
RootActions(s) == RetSeq(s, Actions(s, OdKeys(s.children)))

\* ChildActions taking a child for a parent that has no children.
ChildActions_ChildAsParent(s, parent_id) ==
    IF Registry_get(s, parent_id).val = NoAction
    THEN Raise(s, KeyError)
    ELSE IF ~OdHas(s.children, parent_id)
         THEN RetSeq(s, << >>)
    ELSE RetSeq(s, Actions(s, OdGet(s.children, parent_id)))

\* ChildActions reading the list with self._children.setdefault(parent_id,
\* []): an id that is no root gets a list of its own.
ChildActions_SetDefault(s, parent_id) ==
    IF Registry_get(s, parent_id).val = NoAction
    THEN Raise(s, KeyError)
    ELSE IF ~OdHas(s.children, parent_id)
         THEN RetSeq([s EXCEPT !.children = OdSet(@, parent_id, << >>)], << >>)
    ELSE RetSeq(s, Actions(s, OdGet(s.children, parent_id)))

\* get_child_actions once populated.
ChildActions(s, parent_id) ==
    IF Registry_get(s, parent_id).val = NoAction
    THEN Raise(s, KeyError)
    ELSE IF ~OdHas(s.children, parent_id)
         THEN Raise(s, ValueError)
    ELSE RetSeq(s, Actions(s, OdGet(s.children, parent_id)))

\* get_root_actions without its self.populate().
get_root_actions_NoPopulate(s) == RootActions(s)

\* The generator get_root_actions, run to its end: the list it yields.
get_root_actions(s) == Then(populate(s), LAMBDA s1 : RootActions(s1))

\* The generator get_child_actions, run to its end.
get_child_actions(s, parent_id) ==
    Then(populate(s), LAMBDA s1 : ChildActions(s1, parent_id))

\* for x in xs: self.unregister(x)
UnregisterEach(s, xs) ==
    IF xs = << >> THEN Ok(s)
    ELSE Then(unregister_populated(s, Head(xs)),
              LAMBDA s1 : UnregisterEach(s1, Tail(xs)))

\* Some enumeration of a set as a sequence (iteration order of a Python set).
RECURSIVE SetToSeq(_)
SetToSeq(S) ==
    IF S = {} THEN << >>
    ELSE <<CHOOSE y \in S : TRUE>> \o SetToSeq(S \ {CHOOSE y \in S : TRUE})

\* Registry.reset (djblets): unregister what is left, clear the flag.
Registry_reset(s) ==
    IF s.populated
    THEN Then(UnregisterEach(s, SetToSeq(s.items)),
              LAMBDA s1 : Ok([s1 EXCEPT !.populated = FALSE]))
    ELSE Ok(s)

\* reset without the call of the base class's reset.
reset_RootsOnly(s) ==
    IF s.populated
    THEN UnregisterEach(s, RootActions(s).seq)
    ELSE Ok(s)

reset(s) ==
    IF s.populated
    THEN Then(UnregisterEach(s, RootActions(s).seq),
              LAMBDA s1 : Registry_reset(s1))
    ELSE Registry_reset(s)

RECURSIVE register_actions(_, _, _)
\* reviews/actions.py register_actions:
\* for action in actions: _action_registry.register(action, parent_id)
register_actions(s, actions, parent_id) ==
    IF actions = << >> THEN Ok(s)
    ELSE Then(register(s, Head(actions), parent_id),
              LAMBDA s1 : register_actions(s1, Tail(actions), parent_id))

\* The public unregister_by_attr: it populates, then looks the item up and
\* unregisters it.
unregister_by_attr(s, attr_value) ==
    Then(populate(s), LAMBDA s1 : Registry_unregister_by_attr(s1, attr_value))

RECURSIVE unregister_actions(_, _)
\* reviews/actions.py unregister_actions:
\* for action_id in action_ids:
\*     _action_registry.unregister_by_attr('action_id', action_id)
unregister_actions(s, action_ids) ==
    IF action_ids = << >> THEN Ok(s)
    ELSE Then(unregister_by_attr(s, Head(action_ids)),
              LAMBDA s1 : unregister_actions(s1, Tail(action_ids)))

(* ------------------------------ the state ------------------------------ *)

Threads == 1..NumThreads

\* A thread that is in no call.
IdleThread == [stack |-> << >>, err |-> NoErr, val |-> NoAction,
               out |-> << >>, torn |-> FALSE]


State == [cls |-> cls, registry |-> registry, items |-> items,
          children |-> children, parents |-> parents,
          populated |-> populated, gen |-> gen]

\* ActionRegistry.__init__
Init ==
    /\ cls \in RegistryClasses
    /\ registry = EmptyDict
    /\ items = {}
    /\ children = << >>
    /\ parents = EmptyDict
    /\ populated = FALSE
    /\ gen = 0
    /\ lastCall = [op |-> "init", action |-> NoAction, parent_id |-> None,
                   err |-> NoErr, val |-> NoAction, seq |-> << >>,
                   actions |-> << >>, action_ids |-> << >>]
    /\ pre = State
    /\ thr = [t \in Threads |-> IdleThread]
    /\ ncalls = 0

\* The registry after the call op(action, parent_id) that ended as r.
Becomes(r, op, action, parent_id) ==
    /\ registry' = r.st.registry
    /\ items' = r.st.items
    /\ children' = r.st.children
    /\ parents' = r.st.parents
    /\ populated' = r.st.populated
    /\ gen' = r.st.gen
    /\ cls' = cls
    /\ lastCall' = [op |-> op, action |-> action, parent_id |-> parent_id,
                    err |-> r.err, val |-> r.val, seq |-> r.seq,
                    actions |-> << >>, action_ids |-> << >>]
    /\ pre' = State
    /\ UNCHANGED <<thr, ncalls>>

\* A call may build the default instances once more only below the bound.
MayPopulate == populated \/ gen < MaxGen

\* The instances built outside get_defaults(): an action with an id of its
\* own and one that shares its id with a default child.
ExtActions == [action_id : {"item-action", "nested-item"}, tag : ExtTags]

\* The instances a caller passes in: those and the defaults of the latest
\* population.
\* The instances built by the g-th get_defaults() call of class c.
DefaultsOf(c, g) ==
    UNION {{get_defaults(c, g)[i].parent}
               \cup SeqToSet(get_defaults(c, g)[i].children) :
           i \in 1..Len(get_defaults(c, g))}

\* The action ids of the defaults of class c.
DefaultIds(c) == {a.action_id : a \in DefaultsOf(c, 1)}

Known ==
    ExtActions
        \cup (IF gen > 0 THEN DefaultsOf(cls, gen) ELSE {})

Register(action, parent_id) ==
    /\ MayPopulate
    /\ Becomes(register(State, action, parent_id), "register", action,
               parent_id)

Unregister(action) ==
    /\ MayPopulate
    /\ Becomes(unregister(State, action), "unregister", action, None)

Populate ==
    /\ MayPopulate
    /\ Becomes(populate(State), "populate", NoAction, None)

Reset ==
    /\ Becomes(reset(State), "reset", NoAction, None)

\* get_action(action_id); the call is recorded with the id it looked up.
CallGetAction(action_id) ==
    /\ MayPopulate
    /\ Becomes(get_action(State, action_id), "get_action", NoAction,
               action_id)

\* list(get_root_actions())
CallGetRootActions ==
    /\ MayPopulate
    /\ Becomes(get_root_actions(State), "get_root_actions", NoAction, None)

\* list(get_child_actions(parent_id))
CallGetChildActions(parent_id) ==
    /\ MayPopulate
    /\ Becomes(get_child_actions(State, parent_id), "get_child_actions",
               NoAction, parent_id)

Next ==
    \/ \E a \in Known, p \in Ids \cup {None} : Register(a, p)
    \/ \E a \in Known : Unregister(a)
    \/ Populate
    \/ Reset
    \/ \E i \in Ids : CallGetAction(i)
    \/ CallGetRootActions
    \/ \E p \in Ids : CallGetChildActions(p)

Spec == Init /\ [][Next]_vars

\* A registry of a subclass whose default list is faulty.
InitFaulty ==
    /\ cls = "FaultyActionRegistry"
    /\ registry = EmptyDict
    /\ items = {}
    /\ children = << >>
    /\ parents = EmptyDict
    /\ populated = FALSE
    /\ gen = 0
    /\ lastCall = [op |-> "init", action |-> NoAction, parent_id |-> None,
                   err |-> NoErr, val |-> NoAction, seq |-> << >>,
                   actions |-> << >>, action_ids |-> << >>]
    /\ pre = State
    /\ thr = [t \in Threads |-> IdleThread]
    /\ ncalls = 0

\* The calls of Next on that registry.
SpecFaulty == InitFaulty /\ [][Next]_vars

(* --------------------- the review request registry --------------------- *)
(* reviews/actions.py keeps one ReviewRequestActionRegistry for the        *)
(* process, _action_registry, and gives extensions register_actions and    *)
(* unregister_actions to change it.                                        *)

\* _action_registry = ReviewRequestActionRegistry()
InitReview ==
    /\ cls = "ReviewRequestActionRegistry"
    /\ registry = EmptyDict
    /\ items = {}
    /\ children = << >>
    /\ parents = EmptyDict
    /\ populated = FALSE
    /\ gen = 0
    /\ lastCall = [op |-> "init", action |-> NoAction, parent_id |-> None,
                   err |-> NoErr, val |-> NoAction, seq |-> << >>,
                   actions |-> << >>, action_ids |-> << >>]
    /\ pre = State
    /\ thr = [t \in Threads |-> IdleThread]
    /\ ncalls = 0

\* The registry after a call on a collection that ended as r.
BecomesBulk(r, op, actions, parent_id, action_ids) ==
    /\ registry' = r.st.registry
    /\ items' = r.st.items
    /\ children' = r.st.children
    /\ parents' = r.st.parents
    /\ populated' = r.st.populated
    /\ gen' = r.st.gen
    /\ cls' = cls
    /\ lastCall' = [op |-> op, action |-> NoAction, parent_id |-> parent_id,
                    err |-> r.err, val |-> r.val, seq |-> r.seq,
                    actions |-> actions, action_ids |-> action_ids]
    /\ pre' = State
    /\ UNCHANGED <<thr, ncalls>>

\* The collections of actions an extension registers in one call.
ActionBatches ==
    {<<a>> : a \in ExtActions} \cup {<<a, b>> : a, b \in ExtActions}

\* The parents an extension names in register_actions: none, a default
\* menu, a default child, an id of its own.
BatchParents == {None, "close-review-request-action",
                 "submit-review-request-action", "item-action"}

\* The ids an extension unregisters.
UnregisteredIds == {"item-action", "nested-item",
                    "close-review-request-action",
                    "discard-review-request-action"}

\* The collections of ids an extension unregisters in one call.
IdBatches ==
    {<<i>> : i \in UnregisteredIds}
    \cup {<<i, j>> : i, j \in UnregisteredIds}

\* The ids the callers of the review request registry look up.
LookedUpIds == {"close-review-request-action", "update-review-request-action",
                "submit-review-request-action", "ship-it-action",
                "item-action"}

RegisterActions(actions, parent_id) ==
    /\ MayPopulate
    /\ BecomesBulk(register_actions(State, actions, parent_id),
                   "register_actions", actions, parent_id, << >>)

UnregisterActions(action_ids) ==
    /\ MayPopulate
    /\ BecomesBulk(unregister_actions(State, action_ids),
                   "unregister_actions", << >>, None, action_ids)

NextReview ==
    \/ \E b \in ActionBatches, p \in BatchParents : RegisterActions(b, p)
    \/ \E b \in IdBatches : UnregisterActions(b)
    \/ Populate
    \/ Reset
    \/ \E i \in LookedUpIds : CallGetAction(i)
    \/ CallGetRootActions
    \/ \E p \in LookedUpIds : CallGetChildActions(p)

SpecReview == InitReview /\ [][NextReview]_vars

(* ----------------------- threads without a lock ------------------------ *)
(* registry.py takes no lock.  A thread runs a call as the list of the    *)
(* statements it has still to execute; another thread may run between any *)
(* two of them.  A statement is one frame: the statement's name, the     *)
(* action and the id it works on and, for a loop, the iterator's state.   *)

Frame(op, a, p) == [op |-> op, a |-> a, p |-> p, k |-> << >>, i |-> 0]

\* The iterator of a loop: k is what it walks, p and i tell how far it is.
IterFrame(op, p, k, i) == [op |-> op, a |-> NoAction, p |-> p, k |-> k, i |-> i]

\* The statements that start with self.populate().
PopulatingOps == {"populate", "check_parent", "base_register",
                  "base_unregister", "unregister_by_attr", "get_action",
                  "get_root_actions", "get_child_actions", "yield_action"}

\* The body of register(action, parent_id).
RegisterOps(action, parent_id) ==
    IF parent_id # None
    THEN << Frame("check_parent", action, parent_id),
            Frame("base_register", action, parent_id),
            Frame("append_child", action, parent_id),
            Frame("set_parent", action, parent_id) >>
    ELSE << Frame("base_register", action, None),
            Frame("set_children", action, None) >>

\* The body of unregister(action).
UnregisterOps(action) ==
    << Frame("base_unregister", action, None),
       Frame("unlink", action, None) >>

RECURSIVE RegisterAllOps(_, _)
\* for child in children: self.register(child, parent_id=parent.action_id)
RegisterAllOps(actions, parent_id) ==
    IF actions = << >> THEN << >>
    ELSE RegisterOps(Head(actions), parent_id)
         \o RegisterAllOps(Tail(actions), parent_id)

\* The body of populate's loop for one entry of get_defaults().
PopulateItemOps(item) ==
    IF item.tuple
    THEN RegisterOps(item.parent, None)
         \o RegisterAllOps(item.children, item.parent.action_id)
    ELSE RegisterOps(item.parent, None)

RECURSIVE PopulateOps(_)
\* for item in self.get_defaults(): ...
PopulateOps(defaults) ==
    IF defaults = << >> THEN << >>
    ELSE PopulateItemOps(Head(defaults)) \o PopulateOps(Tail(defaults))

RECURSIVE UnregisterByAttrOps(_)
\* for child_id in list(child_ids): self.unregister_by_attr(...)
UnregisterByAttrOps(ids) ==
    IF ids = << >> THEN << >>
    ELSE << Frame("unregister_by_attr", NoAction, Head(ids)) >>
         \o UnregisterByAttrOps(Tail(ids))

RECURSIVE UnregisterEachOps(_)
\* for x in xs: self.unregister(x)
UnregisterEachOps(xs) ==
    IF xs = << >> THEN << >>
    ELSE UnregisterOps(Head(xs)) \o UnregisterEachOps(Tail(xs))

\* The calls a thread makes, as the statements each starts with.
ThreadCalls ==
    {RegisterOps(a, p) : a \in ExtActions, p \in {None, "menu-action"}}
    \cup {UnregisterOps(a) : a \in ExtActions}
    \cup {<< Frame("unregister_by_attr", NoAction, i) >> :
            i \in {"menu-action", "nested-item"}}
    \cup {<< Frame("populate", NoAction, None) >>,
          << Frame("reset", NoAction, None) >>,
          << Frame("get_root_actions", NoAction, None) >>}
    \cup {<< Frame("get_action", NoAction, i) >> :
            i \in {"menu-action", "item-action"}}
    \cup {<< Frame("get_child_actions", NoAction, i) >> :
            i \in {"menu-action", "item-action"}}

\* The statement thread t runs next.
Top(t) == Head(thr[t].stack)

\* Thread t is at a statement named op.
At(t, op) == thr[t].stack # << >> /\ Top(t).op = op

\* Thread t is at a statement named op that finds the registry populated.
AtPopulated(t, op) == At(t, op) /\ populated

\* Thread t goes on with the statements stack.
Goes(t, stack) == thr' = [thr EXCEPT ![t].stack = stack]

\* Thread t has run the statement that ended as r and goes on with stack;
\* an exception ends its call.
Runs(t, r, stack) ==
    /\ registry' = r.st.registry
    /\ items' = r.st.items
    /\ children' = r.st.children
    /\ parents' = r.st.parents
    /\ populated' = r.st.populated
    /\ gen' = r.st.gen
    /\ thr' = [thr EXCEPT ![t].stack = IF r.err # NoErr THEN << >> ELSE stack,
                          ![t].err = r.err]
    /\ UNCHANGED <<cls, lastCall, pre, ncalls>>

\* The id is in the lookup mapping and in neither index.
Untracked(id) ==
    /\ id \in DOMAIN registry
    /\ ~OdHas(children, id)
    /\ id \notin DOMAIN parents

\* Thread t has looked an id up and got the action val (or raised err);
\* torn tells whether what it read was the registry in the middle of a call.
Reads(t, err, val, torn, stack) ==
    /\ thr' = [thr EXCEPT ![t].stack = IF err # NoErr THEN << >> ELSE stack,
                          ![t].err = err,
                          ![t].val = val,
                          ![t].torn = @ \/ torn]
    /\ UNCHANGED <<cls, registry, items, children, parents, populated, gen,
                   lastCall, pre, ncalls>>

\* The generator thread t consumes yields the action val; an index entry
\* whose id is missing from the lookup mapping yields None.
Yields(t, val, stack) ==
    /\ thr' = [thr EXCEPT ![t].stack = stack,
                          ![t].val = val,
                          ![t].out = Append(@, val),
                          ![t].torn = @ \/ val = NoAction]
    /\ UNCHANGED <<cls, registry, items, children, parents, populated, gen,
                   lastCall, pre, ncalls>>

\* The statement thread t is at has made its self.populate() call, or will
\* find nothing to do in it.
Ready(t, op) == At(t, op) /\ (Top(t).i = 1 \/ populated)

\* A thread that is in no call starts one.
CallStart(t) ==
    /\ thr[t].stack = << >>
    /\ ncalls < MaxCalls
    /\ \E c \in ThreadCalls :
         thr' = [thr EXCEPT ![t] = [IdleThread EXCEPT !.stack = c]]
    /\ ncalls' = ncalls + 1
    /\ UNCHANGED <<cls, registry, items, children, parents, populated, gen,
                   lastCall, pre>>

\* populate on a registry that is not populated: set the flag, then
\* register the defaults one statement after the other.
PopulateStart(t) ==
    /\ thr[t].stack # << >>
    /\ Top(t).op \in PopulatingOps
    /\ Top(t).i = 0
    /\ ~populated
    /\ gen < MaxGen
    /\ populated' = TRUE
    /\ gen' = gen + 1
    /\ Goes(t, PopulateOps(get_defaults(cls, gen + 1))
               \o (IF Top(t).op = "populate" THEN << >>
                   ELSE << [Top(t) EXCEPT !.i = 1] >>)
               \o Tail(thr[t].stack))
    /\ UNCHANGED <<cls, registry, items, children, parents, lastCall, pre,
                   ncalls>>

\* populate on a populated registry returns at once.
PopulateReturn(t) ==
    /\ AtPopulated(t, "populate")
    /\ Goes(t, Tail(thr[t].stack))
    /\ UNCHANGED <<cls, registry, items, children, parents, populated, gen,
                   lastCall, pre, ncalls>>

\* register: the checks of parent_id.
CheckParentStep(t) ==
    /\ Ready(t, "check_parent")
    /\ Runs(t, CheckParent(State, Top(t).p), Tail(thr[t].stack))

\* register: super().register(action)
BaseRegister(t) ==
    /\ Ready(t, "base_register")
    /\ Runs(t, Registry_register(State, Top(t).a), Tail(thr[t].stack))

\* register: self._children[parent_id].append(action.action_id)
AppendChildStep(t) ==
    /\ At(t, "append_child")
    /\ Runs(t, AppendChild(State, Top(t).p, Top(t).a.action_id),
            Tail(thr[t].stack))

\* register: self._parents[action.action_id] = parent_id
SetParent(t) ==
    /\ At(t, "set_parent")
    /\ Runs(t, Ok([State EXCEPT
                     !.parents = DictSet(@, Top(t).a.action_id, Top(t).p)]),
            Tail(thr[t].stack))

\* register: self._children[action.action_id] = []
SetChildren(t) ==
    /\ At(t, "set_children")
    /\ Runs(t, Ok([State EXCEPT
                     !.children = OdSet(@, Top(t).a.action_id, << >>)]),
            Tail(thr[t].stack))

\* unregister: super().unregister(action)
BaseUnregister(t) ==
    /\ Ready(t, "base_unregister")
    /\ Runs(t, Registry_unregister(State, Top(t).a), Tail(thr[t].stack))

\* unregister: child_ids = self._children.get(action.action_id), and the
\* branch it selects: the loop over a copy of child_ids, or the pop of the
\* reverse link.
UnlinkStep(t) ==
    /\ At(t, "unlink")
    /\ IF OdHas(children, Top(t).a.action_id)
       THEN Runs(t, Ok(State),
                 UnregisterByAttrOps(OdGet(children, Top(t).a.action_id))
                 \o << Frame("del_children", Top(t).a, None) >>
                 \o Tail(thr[t].stack))
       ELSE IF Top(t).a.action_id \notin DOMAIN parents
            THEN Runs(t, Raise(State, KeyError), << >>)
       ELSE Runs(t, Ok([State EXCEPT
                          !.parents = DictDel(@, Top(t).a.action_id)]),
                 << Frame("remove_child", Top(t).a,
                          parents[Top(t).a.action_id]) >>
                 \o Tail(thr[t].stack))

\* unregister: self.unregister_by_attr('action_id', child_id)
UnregisterByAttr(t) ==
    /\ Ready(t, "unregister_by_attr")
    /\ Runs(t, Ok(State),
            UnregisterOps(Registry_get(State, Top(t).p).val)
            \o Tail(thr[t].stack))

\* unregister: del self._children[action.action_id]
DelChildrenStep(t) ==
    /\ At(t, "del_children")
    /\ Runs(t, DelChildren(State, Top(t).a.action_id), Tail(thr[t].stack))

\* unregister: self._children[parent_id].remove(action.action_id)
RemoveChildStep(t) ==
    /\ At(t, "remove_child")
    /\ Runs(t, RemoveChild(State, Top(t).p, Top(t).a.action_id),
            Tail(thr[t].stack))

\* reset: the roots are listed, then unregistered one after the other.
ResetStep(t) ==
    /\ At(t, "reset")
    /\ Runs(t, Ok(State),
            (IF populated THEN UnregisterEachOps(RootActions(State).seq)
             ELSE << >>)
            \o << Frame("base_reset", NoAction, None) >>
            \o Tail(thr[t].stack))

\* reset: super().reset(), which unregisters the items that are left.
BaseReset(t) ==
    /\ At(t, "base_reset")
    /\ Runs(t, Ok(State),
            (IF populated
             THEN UnregisterEachOps(SetToSeq(items))
                  \o << Frame("clear_populated", NoAction, None) >>
             ELSE << >>)
            \o Tail(thr[t].stack))

\* reset: self._populated = False
ClearPopulated(t) ==
    /\ At(t, "clear_populated")
    /\ Runs(t, Ok([State EXCEPT !.populated = FALSE]), Tail(thr[t].stack))

\* get_action(action_id)
GetAction(t) ==
    /\ Ready(t, "get_action")
    /\ Reads(t, NoErr, Registry_get(State, Top(t).p).val,
             Untracked(Top(t).p), Tail(thr[t].stack))

\* The position of x in the list l.
Pos(l, x) == CHOOSE i \in 1..Len(l) : l[i] = x

\* The part of the list l that follows x.
After(l, x) == SubSeq(l, Pos(l, x) + 1, Len(l))

\* The keys the iterator f over _children has still to visit: those after
\* the key it visited last; when that key has been deleted, those that
\* followed it and are still there.
Ahead(f) ==
    IF f.p = None THEN OdKeys(children)
    ELSE IF f.p \in SeqToSet(OdKeys(children))
         THEN After(OdKeys(children), f.p)
    ELSE SelectSeq(After(f.k, f.p),
                   LAMBDA x : x \in SeqToSet(OdKeys(children)))

\* get_root_actions: for action_id in self._children
GetRootActions(t) ==
    /\ Ready(t, "get_root_actions")
    /\ Runs(t, Ok(State),
            << IterFrame("next_root", None, OdKeys(children), 0) >>
            \o Tail(thr[t].stack))

\* get_root_actions: the loop takes the next key of _children.
NextRoot(t) ==
    /\ At(t, "next_root")
    /\ Runs(t, Ok(State),
            IF Ahead(Top(t)) = << >> THEN Tail(thr[t].stack)
            ELSE << Frame("yield_action", NoAction, Head(Ahead(Top(t)))),
                    IterFrame("next_root", Head(Ahead(Top(t))),
                              OdKeys(children), 0) >>
                 \o Tail(thr[t].stack))

\* yield self.get_action(action_id)
YieldAction(t) ==
    /\ Ready(t, "yield_action")
    /\ Yields(t, Registry_get(State, Top(t).p).val, Tail(thr[t].stack))

\* get_child_actions: the checks of parent_id, then
\* for action_id in self._children[parent_id]
GetChildActions(t) ==
    /\ Ready(t, "get_child_actions")
    /\ IF Registry_get(State, Top(t).p).val = NoAction
       THEN Reads(t, KeyError, NoAction,
                  OdHas(children, Top(t).p) \/ Top(t).p \in DOMAIN parents,
                  << >>)
       ELSE IF ~OdHas(children, Top(t).p)
            THEN Reads(t, ValueError, NoAction, Untracked(Top(t).p), << >>)
       ELSE Reads(t, NoErr, NoAction, FALSE,
                  << IterFrame("next_child", Top(t).p,
                               OdGet(children, Top(t).p), 0) >>
                  \o Tail(thr[t].stack))

\* The list the iterator f of get_child_actions walks: the parent's list
\* as it is now, or as the iterator saw it last once the parent's entry
\* has been deleted.
Walked(f) ==
    IF f.p # None /\ OdHas(children, f.p) THEN OdGet(children, f.p)
    ELSE f.k

\* get_child_actions: the loop takes the next element of the list.
NextChild(t) ==
    /\ At(t, "next_child")
    /\ Runs(t, Ok(State),
            IF Top(t).i >= Len(Walked(Top(t))) THEN Tail(thr[t].stack)
            ELSE << Frame("yield_action", NoAction,
                          Walked(Top(t))[Top(t).i + 1]),
                    IterFrame("next_child",
                              IF Top(t).p # None /\ OdHas(children, Top(t).p)
                              THEN Top(t).p ELSE None,
                              Walked(Top(t)), Top(t).i + 1) >>
                 \o Tail(thr[t].stack))

NextConc ==
    \E t \in Threads :
        \/ CallStart(t)
        \/ PopulateStart(t)
        \/ PopulateReturn(t)
        \/ CheckParentStep(t)
        \/ BaseRegister(t)
        \/ AppendChildStep(t)
        \/ SetParent(t)
        \/ SetChildren(t)
        \/ BaseUnregister(t)
        \/ UnlinkStep(t)
        \/ UnregisterByAttr(t)
        \/ DelChildrenStep(t)
        \/ RemoveChildStep(t)
        \/ ResetStep(t)
        \/ BaseReset(t)
        \/ ClearPopulated(t)
        \/ GetAction(t)
        \/ GetRootActions(t)
        \/ NextRoot(t)
        \/ YieldAction(t)
        \/ GetChildActions(t)
        \/ NextChild(t)

\* The registry used by NumThreads threads with no lock.
SpecConc == Init /\ [][NextConc]_vars

(* ------------------------------ rendering ------------------------------ *)
(* base.py: an action is rendered into a template context, a stack of      *)
(* dictionaries.  The action that is rendered is described by its          *)
(* instance, by whether it is a menu, by its attributes and by what the    *)
(* methods its class overrides do: return, or raise.                       *)

Exception == "Exception"

TypeError == "TypeError"

\* django.template.Context.push()
CtxPush(ctx) == Append(ctx, EmptyDict)

\* django.template.Context.pop()
CtxPop(ctx) == SubSeq(ctx, 1, Len(ctx) - 1)

\* context[key] = value: the assignment goes to the innermost scope.
CtxSet(ctx, key, value) == [ctx EXCEPT ![Len(ctx)] = DictSet(@, key, value)]

\* key in context
CtxHas(ctx, key) == \E i \in 1..Len(ctx) : key \in DOMAIN ctx[i]

\* context[key], for a key the context holds: the value in the innermost
\* scope that has it.
CtxGet(ctx, key) ==
    ctx[CHOOSE i \in 1..Len(ctx) :
            /\ key \in DOMAIN ctx[i]
            /\ \A j \in (i + 1)..Len(ctx) : key \notin DOMAIN ctx[j]][key]

\* The keys visible in the context.
CtxKeys(ctx) == UNION {DOMAIN ctx[i] : i \in 1..Len(ctx)}

\* An object of a subclass of BaseAction (kind "item") or of BaseMenuAction
\* (kind "menu") with the class attributes of base.py; should_render is
\* what its should_render does ("True", "False" or "Raises"), raises is
\* the set of the other methods that raise.
ActionObject(action, kind, should_render, raises) ==
    [self |-> action, kind |-> kind, label |-> "Label", url |-> "#",
     hidden |-> FALSE, should_render |-> should_render, raises |-> raises]

\* What a step of a render leaves: the registry, the context, the action
\* object, the exception, the markup (a sequence of rendered templates, ''
\* being the empty one), the dictionary built for the template and the
\* methods of the action called so far.
Rendered(s, ctx, x, err, out, values, trace) ==
    [st |-> s, ctx |-> ctx, self |-> x, err |-> err, out |-> out,
     values |-> values, trace |-> trace]

\* No dictionary built.
NoValues == [id |-> None]

\* get_label keeping the label it computed for the request on the action.
BaseRenderContext_Stored(s, x, ctx) ==
    IF x.raises \cap {"get_label", "get_url", "get_hidden"} # {}
    THEN Rendered(s, ctx, x, Exception, << >>, NoValues, <<"get_label">>)
    ELSE Rendered(s, ctx,
                  [x EXCEPT !.label = IF CtxHas(ctx, "request")
                                      THEN "Label for the request" ELSE @],
                  NoErr, << >>,
                  [id |-> x.self.action_id,
                   label |-> IF CtxHas(ctx, "request")
                             THEN "Label for the request" ELSE x.label,
                   url |-> x.url, hidden |-> x.hidden],
                  <<"get_label", "get_url", "get_hidden">>)

\* BaseAction.get_render_context: the dict display evaluates action_id,
\* get_label, get_url and get_hidden in that order; the first getter that
\* raises ends it.
BaseRenderContext(s, x, ctx) ==
    IF "get_label" \in x.raises
    THEN Rendered(s, ctx, x, Exception, << >>, NoValues, <<"get_label">>)
    ELSE IF "get_url" \in x.raises
         THEN Rendered(s, ctx, x, Exception, << >>, NoValues,
                       <<"get_label", "get_url">>)
    ELSE IF "get_hidden" \in x.raises
         THEN Rendered(s, ctx, x, Exception, << >>, NoValues,
                       <<"get_label", "get_url", "get_hidden">>)
    ELSE Rendered(s, ctx, x, NoErr, << >>,
                  [id |-> x.self.action_id, label |-> x.label,
                   url |-> x.url, hidden |-> x.hidden],
                  <<"get_label", "get_url", "get_hidden">>)

\* ActionRegistry.__init__: a registry of class c on which get_defaults
\* has been called g times (by registries built before it).
NewRegistry(c, g) ==
    [cls |-> c, registry |-> EmptyDict, items |-> {}, children |-> << >>,
     parents |-> EmptyDict, populated |-> FALSE, gen |-> g]

\* The children of the menu resolved once, on the registry as its first
\* population leaves it, and kept.
MenuRenderContext_Cached(s, x, ctx) ==
    IF BaseRenderContext(s, x, ctx).err # NoErr
    THEN BaseRenderContext(s, x, ctx)
    ELSE Rendered(populate(s).st, ctx, x, NoErr, << >>,
                  [id |-> x.self.action_id, label |-> x.label,
                   url |-> x.url, hidden |-> x.hidden,
                   child_actions |->
                     get_child_actions(
                         NewRegistry(s.cls, populate(s).st.gen - 1),
                         x.self.action_id).seq],
                  BaseRenderContext(s, x, ctx).trace \o <<"child_actions">>)

\* BaseMenuAction.get_render_context: the base dictionary, then
\* values['child_actions'] = list(self.child_actions), which asks the
\* registry.
MenuRenderContext(s, x, ctx) ==
    IF BaseRenderContext(s, x, ctx).err # NoErr
    THEN BaseRenderContext(s, x, ctx)
    ELSE IF get_child_actions(s, x.self.action_id).err # NoErr
         THEN Rendered(get_child_actions(s, x.self.action_id).st, ctx,
                       BaseRenderContext(s, x, ctx).self,
                       get_child_actions(s, x.self.action_id).err, << >>,
                       NoValues,
                       BaseRenderContext(s, x, ctx).trace
                       \o <<"child_actions">>)
    ELSE Rendered(get_child_actions(s, x.self.action_id).st, ctx,
                       BaseRenderContext(s, x, ctx).self, NoErr,
                  << >>,
                  [id |-> x.self.action_id, label |-> x.label,
                   url |-> x.url, hidden |-> x.hidden,
                   child_actions |->
                     get_child_actions(s, x.self.action_id).seq],
                  BaseRenderContext(s, x, ctx).trace \o <<"child_actions">>)

\* self.get_render_context(context)
get_render_context(s, x, ctx) ==
    IF x.kind = "menu" THEN MenuRenderContext(s, x, ctx)
    ELSE BaseRenderContext(s, x, ctx)

\* context_key of the class.
context_key(x) == IF x.kind = "menu" THEN "menu" ELSE "action"

\* template_name of the class.
template_name(x) ==
    IF x.kind = "menu" THEN "actions/header_action_dropdown.html"
    ELSE "actions/action.html"

\* render, the body of the try statement, run on the pushed context.
RenderBody(s, x, ctx) ==
    IF get_render_context(s, x, ctx).err # NoErr
    THEN get_render_context(s, x, ctx)
    ELSE IF "render_to_string" \in x.raises
         THEN Rendered(get_render_context(s, x, ctx).st,
                       CtxSet(ctx, context_key(x),
                              get_render_context(s, x, ctx).values),
                       get_render_context(s, x, ctx).self, Exception, << >>,
                       get_render_context(s, x, ctx).values,
                       get_render_context(s, x, ctx).trace
                       \o <<"render_to_string">>)
    ELSE Rendered(get_render_context(s, x, ctx).st,
                  CtxSet(ctx, context_key(x),
                         get_render_context(s, x, ctx).values),
                  get_render_context(s, x, ctx).self, NoErr,
                  << [template |-> template_name(x),
                      values |-> get_render_context(s, x, ctx).values] >>,
                  get_render_context(s, x, ctx).values,
                  get_render_context(s, x, ctx).trace
                  \o <<"render_to_string">>)

\* The pop placed after the body of the try statement instead of in a
\* finally clause: it runs only when the body returned.
Finally_OnReturn(b) ==
    IF b.err # NoErr
    THEN [b EXCEPT !.trace = <<"should_render", "push">> \o @]
    ELSE [b EXCEPT !.ctx = CtxPop(@),
                   !.trace = <<"should_render", "push">> \o @ \o <<"pop">>]

\* render, the finally clause: context.pop() whether the body returned or
\* raised.
Finally(b) ==
    [b EXCEPT !.ctx = CtxPop(@),
              !.trace = <<"should_render", "push">> \o @ \o <<"pop">>]

\* render building the template of an action that should not render.
render_NoTest(s, x, ctx) ==
    IF x.should_render = "Raises"
    THEN Rendered(s, ctx, x, Exception, << >>, NoValues, <<"should_render">>)
    ELSE Finally(RenderBody(s, x, CtxPush(ctx)))

\* BaseAction.render(context)
render(s, x, ctx) ==
    IF x.should_render = "Raises"
    THEN Rendered(s, ctx, x, Exception, << >>, NoValues, <<"should_render">>)
    ELSE IF x.should_render = "False"
         THEN Rendered(s, ctx, x, NoErr, << >>, NoValues, <<"should_render">>)
    ELSE Finally(RenderBody(s, x, CtxPush(ctx)))

\* The contexts an action is rendered into: the one of the unit test, and
\* one with two scopes in which the key 'action' is already visible.
Contexts ==
    { << DictSet(EmptyDict, "comment", "this is a comment") >>,
      << DictSet(EmptyDict, "request", "request"),
         DictSet(EmptyDict, "action", "outer action") >> }

\* What the overridden methods of a rendered class do.
ShouldRenders == {"True", "False", "Raises"}

RaisingMethods == {{}, {"get_label"}, {"get_url"}, {"get_hidden"},
                   {"render_to_string"}}

\* The objects that are rendered: an item action built by an extension or a
\* test, and the menu action of the testing registry.
RenderObjects ==
    {ActionObject([action_id |-> "item-action", tag |-> 0 - 1], "item",
                  sr, rs) : sr \in ShouldRenders, rs \in RaisingMethods}
    \cup
    {ActionObject([action_id |-> "menu-action",
                   tag |-> IF gen = 0 THEN 1 ELSE gen], "menu",
                  sr, rs) : sr \in ShouldRenders, rs \in RaisingMethods}

\* The registry after the call op with the argument x (an action object, or
\* the argument of the template tag) and the context ctx that ended as r;
\* the call is recorded with its arguments and its outcome.
BecomesRendered(r, op, x, ctx) ==
    /\ registry' = r.st.registry
    /\ items' = r.st.items
    /\ children' = r.st.children
    /\ parents' = r.st.parents
    /\ populated' = r.st.populated
    /\ gen' = r.st.gen
    /\ cls' = cls
    /\ lastCall' = [op |-> op, action |-> NoAction, parent_id |-> None,
                    err |-> r.err, val |-> NoAction, seq |-> << >>,
                    actions |-> << >>, action_ids |-> << >>,
                    object |-> x, context |-> ctx, rendered |-> r]
    /\ pre' = State
    /\ UNCHANGED <<thr, ncalls>>

\* action.render(context)
Render(x, ctx) ==
    /\ MayPopulate
    /\ BecomesRendered(render(State, x, ctx), "render", x, ctx)

\* child_action.render(*args): render takes the context and nothing else,
\* a call with another number of arguments raises TypeError before the
\* body of render runs.  The context is the last argument.
render_call(s, x, args) ==
    IF Len(args) # 1
    THEN Rendered(s, args[Len(args)], x, TypeError, << >>, NoValues, << >>)
    ELSE render(s, x, args[1])

\* The loop of render_child_actions over the rest of the iterable: a
\* child whose render call returns has its markup appended, an exception
\* of a child is logged and the loop goes on; ''.join(content) at the end.
RECURSIVE RenderChildren(_, _, _, _)
RenderChildren(s, ctx, rest, content) ==
    IF rest = << >>
    THEN Rendered(s, ctx, NoAction, NoErr, content, NoValues, << >>)
    ELSE RenderChildren(
             render_call(s, Head(rest), <<CtxGet(ctx, "request"), ctx>>).st,
             render_call(s, Head(rest), <<CtxGet(ctx, "request"), ctx>>).ctx,
             Tail(rest),
             IF render_call(s, Head(rest), <<CtxGet(ctx, "request"), ctx>>).err = NoErr
             THEN content
                  \o render_call(s, Head(rest), <<CtxGet(ctx, "request"), ctx>>).out
             ELSE content)

\* render_child_actions(context, menu): context['request'] raises KeyError
\* when no scope holds the key; the for statement iterates the argument,
\* which raises TypeError for an object that is not iterable, as a
\* BaseMenuAction is.
render_child_actions(s, ctx, menu) ==
    IF ~CtxHas(ctx, "request")
    THEN Rendered(s, ctx, NoAction, KeyError, << >>, NoValues, << >>)
    ELSE IF menu.type # "list"
         THEN Rendered(s, ctx, NoAction, TypeError, << >>, NoValues, << >>)
    ELSE RenderChildren(s, ctx, menu.items, << >>)

\* The child actions handed to the template tag: well-behaved ones, ones
\* that should not render and ones whose get_label raises.
ChildObjects ==
    {ActionObject([action_id |-> a, tag |-> 0 - 1], "item", b[1], b[2]) :
        a \in {"item-action", "nested-item"},
        b \in {<<"True", {}>>, <<"False", {}>>, <<"True", {"get_label"}>>}}

\* The arguments of the template tag: a menu action, as its docstring
\* says, or a list of child actions.
MenuArguments ==
    {[type |-> "BaseMenuAction", items |-> << >>]}
    \cup {[type |-> "list", items |-> << >>]}
    \cup {[type |-> "list", items |-> <<x>>] : x \in ChildObjects}
    \cup {[type |-> "list", items |-> <<x, y>>] :
             x \in ChildObjects, y \in ChildObjects}

\* {% render_child_actions menu %}
RenderChildActions(menu, ctx) ==
    BecomesRendered(render_child_actions(State, ctx, menu),
                    "render_child_actions", menu, ctx)

NextRender ==
    \/ \E a \in ExtActions, p \in {None, "menu-action"} : Register(a, p)
    \/ \E a \in Known : Unregister(a)
    \/ Populate
    \/ Reset
    \/ \E x \in RenderObjects, ctx \in Contexts : Render(x, ctx)
    \/ \E menu \in MenuArguments, ctx \in Contexts :
          RenderChildActions(menu, ctx)

\* A registry and the renders of actions on it.
SpecRender == Init /\ [][NextRender]_vars

(* ---------------------------- should_render ---------------------------- *)
(* reviews/actions.py, extensions/actions.py: whether an action appears   *)
(* for a request.  A request context is described by what the policies    *)
(* read from it: the site's read-only flag, the user, the review request, *)
(* the permissions, the route and the feature flag.                       *)

\* request.user: AnonymousUser, a user, the submitter of the review
\* request, and superusers.
Users ==
    {[is_authenticated |-> FALSE, is_superuser |-> FALSE, is_submitter |-> FALSE],
     [is_authenticated |-> TRUE, is_superuser |-> FALSE, is_submitter |-> FALSE],
     [is_authenticated |-> TRUE, is_superuser |-> FALSE, is_submitter |-> TRUE],
     [is_authenticated |-> TRUE, is_superuser |-> TRUE, is_submitter |-> FALSE],
     [is_authenticated |-> TRUE, is_superuser |-> TRUE, is_submitter |-> TRUE]}

\* ReviewRequest.status
PENDING_REVIEW == "P"

Statuses == {PENDING_REVIEW, "S", "D"}

\* context['perms']['reviews']
Permissions ==
    {"can_change_status", "can_edit_reviewrequest", "delete_reviewrequest"}

\* The request contexts.
RequestContexts ==
    [type : {"Context"},
     site_read_only : BOOLEAN,
     user : Users,
     status : Statuses,
     public : BOOLEAN,
     perms : SUBSET Permissions,
     has_repository : BOOLEAN,
     diffviewer_url : BOOLEAN,
     general_comments : BOOLEAN]

\* The classes of reviews/actions.py.
ReviewRequestClasses ==
    {"ReviewRequestAction", "ReviewRequestMenuAction", "CloseMenuAction",
     "SubmitAction", "DiscardAction", "DeleteAction", "UpdateMenuAction",
     "UploadDiffAction", "UploadFileAction", "DownloadDiffAction",
     "EditReviewAction", "AddGeneralCommentAction", "ShipItAction"}

\* DictActionMixin mixed into a review request action, as an action hook
\* does for a dictionary.
DictClass == "DictActionMixin, ReviewRequestAction"

\* The actions asked whether they render: one of each class, the
\* dictionary action without applies_to and with an applies_to that
\* returns true or false for the request.
PolicyObjects ==
    [type : {"Action"}, class : ReviewRequestClasses, applies_to : {"None"}]
    \cup [type : {"Action"}, class : {DictClass},
          applies_to : {"None", "True", "False"}]

\* The classes that define should_render themselves.
Overrides ==
    {"CloseMenuAction", "SubmitAction", "DeleteAction", "UpdateMenuAction",
     "UploadDiffAction", "DownloadDiffAction", "EditReviewAction",
     "AddGeneralCommentAction", "ShipItAction", DictClass}

\* render_in_read_only_mode of the class.
render_in_read_only_mode(x) == x.class = "DownloadDiffAction"

\* What a policy returns: a boolean, or the exception it raised.
Returns(b) == [err |-> NoErr, val |-> b]

Raises(e) == [err |-> e, val |-> FALSE]

\* r and b, for the result r of the superclass's policy.
AndAlso(r, b) == IF r.err # NoErr THEN r ELSE Returns(r.val /\ b)

\* reviewboard.admin.read_only.is_site_read_only_for(user): a superuser is
\* never in read-only mode, anyone else is when the site is.
is_site_read_only_for(user, site_read_only) ==
    IF user.is_superuser THEN FALSE ELSE site_read_only

\* ReviewRequestAction.should_render reading the site's flag itself, for
\* every user.
ReviewRequestAction_should_render_SiteFlag(x, context) ==
    IF render_in_read_only_mode(x) THEN Returns(TRUE)
    ELSE IF context.type # "Context" THEN Raises(TypeError)
    ELSE Returns(~context.site_read_only)

\* BaseAction.should_render in place of the policy of ReviewRequestAction.
ReviewRequestAction_should_render_Base(x, context) == Returns(TRUE)

\* ReviewRequestAction.should_render(self, context):
\* self.render_in_read_only_mode or not is_site_read_only_for(
\* context['request'].user).  The second operand subscripts its argument,
\* which raises TypeError when the argument is an action.
ReviewRequestAction_should_render(x, context) ==
    IF render_in_read_only_mode(x) THEN Returns(TRUE)
    ELSE IF context.type # "Context" THEN Raises(TypeError)
    ELSE Returns(~is_site_read_only_for(context.user, context.site_read_only))

\* CloseMenuAction.should_render without the test of review_request.public.
CloseMenuAction_should_render_NoPublic(x, context) ==
    AndAlso(ReviewRequestAction_should_render(x, context),
            /\ context.status = PENDING_REVIEW
            /\ \/ context.user.is_submitter
               \/ "can_change_status" \in context.perms)

CloseMenuAction_should_render(x, context) ==
    AndAlso(ReviewRequestAction_should_render(x, context),
            /\ context.status = PENDING_REVIEW
            /\ \/ context.user.is_submitter
               \/ /\ "can_change_status" \in context.perms
                  /\ context.public)

SubmitAction_should_render(x, context) ==
    AndAlso(ReviewRequestAction_should_render(x, context), context.public)

DeleteAction_should_render(x, context) ==
    AndAlso(ReviewRequestAction_should_render(x, context),
            "delete_reviewrequest" \in context.perms)

UpdateMenuAction_should_render(x, context) ==
    AndAlso(ReviewRequestAction_should_render(x, context),
            /\ context.status = PENDING_REVIEW
            /\ \/ context.user.is_submitter
               \/ "can_edit_reviewrequest" \in context.perms)

UploadDiffAction_should_render(x, context) ==
    AndAlso(ReviewRequestAction_should_render(x, context),
            context.has_repository)

\* DownloadDiffAction.should_render: the superclass's policy is called
\* with the action itself in place of the context.
DownloadDiffAction_should_render(x, context) ==
    AndAlso(ReviewRequestAction_should_render(x, x),
            context.has_repository \/ context.diffviewer_url)

EditReviewAction_should_render(x, context) ==
    AndAlso(ReviewRequestAction_should_render(x, context),
            context.user.is_authenticated)

AddGeneralCommentAction_should_render(x, context) ==
    AndAlso(ReviewRequestAction_should_render(x, context),
            context.user.is_authenticated /\ context.general_comments)

ShipItAction_should_render(x, context) ==
    AndAlso(ReviewRequestAction_should_render(x, context),
            context.user.is_authenticated)

\* DictActionMixin.should_render:
\* self._applies_to is None or self._applies_to(context['request'])
DictActionMixin_should_render(x, context) ==
    Returns(x.applies_to = "None" \/ x.applies_to = "True")

\* action.should_render(context), by the class of the action.
should_render(x, context) ==
    CASE x.class = "CloseMenuAction" -> CloseMenuAction_should_render(x, context)
      [] x.class = "SubmitAction" -> SubmitAction_should_render(x, context)
      [] x.class = "DeleteAction" -> DeleteAction_should_render(x, context)
      [] x.class = "UpdateMenuAction" -> UpdateMenuAction_should_render(x, context)
      [] x.class = "UploadDiffAction" -> UploadDiffAction_should_render(x, context)
      [] x.class = "DownloadDiffAction" ->
             DownloadDiffAction_should_render(x, context)
      [] x.class = "EditReviewAction" -> EditReviewAction_should_render(x, context)
      [] x.class = "AddGeneralCommentAction" ->
             AddGeneralCommentAction_should_render(x, context)
      [] x.class = "ShipItAction" -> ShipItAction_should_render(x, context)
      [] x.class = DictClass -> DictActionMixin_should_render(x, context)
      [] OTHER -> ReviewRequestAction_should_render(x, context)

\* super(<class>, self).should_render(context) for an action of a class
\* that overrides should_render: the next should_render of its bases is
\* ReviewRequestAction's.
super_should_render(x, context) == ReviewRequestAction_should_render(x, context)

\* A request arrives at the review request registry.
InitPolicy ==
    /\ cls = "ReviewRequestActionRegistry"
    /\ registry = EmptyDict
    /\ items = {}
    /\ children = << >>
    /\ parents = EmptyDict
    /\ populated = FALSE
    /\ gen = 0
    /\ \E context \in RequestContexts :
         lastCall = [op |-> "request", action |-> NoAction,
                     parent_id |-> None, err |-> NoErr, val |-> NoAction,
                     seq |-> << >>, actions |-> << >>, action_ids |-> << >>,
                     context |-> context]
    /\ pre = State
    /\ thr = [t \in Threads |-> IdleThread]
    /\ ncalls = 0

\* action.should_render(context) for the context of the request.
ShouldRender(x) ==
    /\ lastCall' = [op |-> "should_render", action |-> NoAction,
                    parent_id |-> None,
                    err |-> should_render(x, lastCall.context).err,
                    val |-> NoAction, seq |-> << >>, actions |-> << >>,
                    action_ids |-> << >>, context |-> lastCall.context,
                    object |-> x,
                    result |-> should_render(x, lastCall.context)]
    /\ pre' = State
    /\ UNCHANGED <<cls, registry, items, children, parents, populated, gen,
                   thr, ncalls>>

NextPolicy == \E x \in PolicyObjects : ShouldRender(x)

\* The requests and the actions asked whether they render for them.
SpecPolicy == InitPolicy /\ [][NextPolicy]_vars

(* ------------------------ calls within calls -------------------------- *)
(* The methods with every self.populate() they make spelled out.  A run  *)
(* is the registry state with a record of what the call did so far: how  *)
(* many populate() calls were entered, how many of them went past the    *)
(* test of the flag, which items the base class registered and which it  *)
(* unregistered, and how deep the call stack got.  A call entered deeper *)
(* than MaxDepth frames ends the run with RecursionError.                *)

RecursionError == "RecursionError"

\* The run of a call that starts on the registry s.
Started(s) ==
    [st |-> s, err |-> NoErr, val |-> NoAction, entered |-> 0, loops |-> 0,
     registered |-> << >>, removed |-> << >>, deepest |-> 0]

\* Statement sequencing on runs.
AndThen(m, K(_)) == IF m.err # NoErr THEN m ELSE K(m)

\* The run m after a statement that ended as r.
Stepped(m, r) == [m EXCEPT !.st = r.st, !.err = r.err]

\* The run m raising e.
Failed(m, e) == [m EXCEPT !.err = e]

\* A method entered with d frames above it.
Entered(m, d) ==
    IF d > MaxDepth THEN Failed(m, RecursionError)
    ELSE [m EXCEPT !.deepest = IF d > @ THEN d ELSE @]

RECURSIVE populate_call(_, _)
RECURSIVE populate_call_FlagLast(_, _)
RECURSIVE register_call(_, _, _, _)
RECURSIVE register_all_call(_, _, _, _)
RECURSIVE populate_items_call(_, _, _)
RECURSIVE unregister_call(_, _, _)
RECURSIVE unregister_children_call(_, _, _)

\* Registry.get (reviewboard, djblets): populate, then look the value up.
Registry_get_call(m, attr_value, d) ==
    AndThen(Entered(m, d),
          LAMBDA m0 :
            AndThen(populate_call(m0, d + 1),
                  LAMBDA m1 : [m1 EXCEPT
                                 !.val = Registry_get(m1.st, attr_value).val]))

\* return self.get('action_id', action_id)
get_action_call(m, action_id, d) ==
    AndThen(Entered(m, d),
          LAMBDA m0 : Registry_get_call(m0, action_id, d + 1))

\* Registry.register (djblets): populate, then record the item.
Registry_register_call(m, item, d) ==
    AndThen(Entered(m, d),
          LAMBDA m0 :
            AndThen(populate_call(m0, d + 1),
                  LAMBDA m1 :
                    IF Registry_register(m1.st, item).err # NoErr
                    THEN Stepped(m1, Registry_register(m1.st, item))
                    ELSE [Stepped(m1, Registry_register(m1.st, item))
                            EXCEPT !.registered = Append(@, item)]))

\* Registry.unregister (djblets): populate, then drop the item.
Registry_unregister_call(m, item, d) ==
    AndThen(Entered(m, d),
          LAMBDA m0 :
            AndThen(populate_call(m0, d + 1),
                  LAMBDA m1 :
                    IF Registry_unregister(m1.st, item).err # NoErr
                    THEN Stepped(m1, Registry_unregister(m1.st, item))
                    ELSE [Stepped(m1, Registry_unregister(m1.st, item))
                            EXCEPT !.removed = Append(@, item)]))

\* register: if parent_id: the lookup of the parent and the two tests.
check_parent_call(m, parent_id, d) ==
    IF parent_id = None THEN m
    ELSE AndThen(get_action_call(m, parent_id, d + 1),
               LAMBDA m1 :
                 IF m1.val = NoAction THEN Failed(m1, KeyError)
                 ELSE IF ~OdHas(m1.st.children, parent_id)
                      THEN Failed(m1, DepthLimitExceededError)
                 ELSE m1)

\* ActionRegistry.register
register_call(m, action, parent_id, d) ==
    AndThen(Entered(m, d),
          LAMBDA m0 :
            AndThen(check_parent_call(m0, parent_id, d),
                  LAMBDA m1 :
                    AndThen(Registry_register_call(m1, action, d + 1),
                          LAMBDA m2 :
                            Stepped(m2, LinkAction(m2.st, action,
                                                   parent_id)))))

\* for child in children: self.register(child, parent_id=parent.action_id)
register_all_call(m, actions, parent_id, d) ==
    IF actions = << >> THEN m
    ELSE AndThen(register_call(m, Head(actions), parent_id, d + 1),
               LAMBDA m1 : register_all_call(m1, Tail(actions), parent_id, d))

\* populate, one entry of the defaults.
populate_item_call(m, item, d) ==
    IF item.tuple
    THEN AndThen(register_call(m, item.parent, None, d + 1),
               LAMBDA m1 : register_all_call(m1, item.children,
                                             item.parent.action_id, d))
    ELSE register_call(m, item.parent, None, d + 1)

\* for item in self.get_defaults(): ...
populate_items_call(m, defaults, d) ==
    IF defaults = << >> THEN m
    ELSE AndThen(populate_item_call(m, Head(defaults), d),
               LAMBDA m1 : populate_items_call(m1, Tail(defaults), d))

\* populate setting the flag once the loop is done; the defaults it walks
\* are then those of one get_defaults() call, whoever enters it.
populate_call_FlagLast(m, d) ==
    AndThen(Entered(m, d),
          LAMBDA m0 :
            IF m0.st.populated
            THEN [m0 EXCEPT !.entered = @ + 1]
            ELSE AndThen(populate_items_call(
                         [m0 EXCEPT !.entered = @ + 1, !.loops = @ + 1],
                         get_defaults(m0.st.cls, m0.st.gen + 1), d),
                       LAMBDA m1 : [m1 EXCEPT !.st.populated = TRUE,
                                              !.st.gen = @ + 1]))

\* ActionRegistry.populate: the test of the flag, the flag, the loop.
populate_call(m, d) ==
    AndThen(Entered(m, d),
          LAMBDA m0 :
            IF m0.st.populated
            THEN [m0 EXCEPT !.entered = @ + 1]
            ELSE populate_items_call(
                   [m0 EXCEPT !.entered = @ + 1, !.loops = @ + 1,
                              !.st.populated = TRUE, !.st.gen = @ + 1],
                   get_defaults(m0.st.cls, m0.st.gen + 1), d))

\* Registry.unregister_by_attr (djblets): look the item up, unregister it.
unregister_by_attr_call(m, attr_value, d) ==
    AndThen(Entered(m, d),
          LAMBDA m0 :
            AndThen(Registry_get_call(m0, attr_value, d + 1),
                  LAMBDA m1 : unregister_call(m1, m1.val, d + 1)))

\* for child_id in list(child_ids): self.unregister_by_attr(...)
unregister_children_call(m, child_ids, d) ==
    IF child_ids = << >> THEN m
    ELSE AndThen(unregister_by_attr_call(m, Head(child_ids), d + 1),
               LAMBDA m1 : unregister_children_call(m1, Tail(child_ids), d))

\* ActionRegistry.unregister
unregister_call(m, action, d) ==
    AndThen(Entered(m, d),
          LAMBDA m0 :
            AndThen(Registry_unregister_call(m0, action, d + 1),
                  LAMBDA m1 :
                    IF OdHas(m1.st.children, action.action_id)
                    THEN AndThen(unregister_children_call(
                                 m1, OdGet(m1.st.children, action.action_id),
                                 d),
                               LAMBDA m2 :
                                 Stepped(m2, DelChildren(m2.st,
                                                         action.action_id)))
                    ELSE Stepped(m1, UnlinkChild(m1.st, action))))

\* The registry after the call op(action, parent_id) whose run ended as m.
BecomesRun(m, op, action, parent_id) ==
    /\ registry' = m.st.registry
    /\ items' = m.st.items
    /\ children' = m.st.children
    /\ parents' = m.st.parents
    /\ populated' = m.st.populated
    /\ gen' = m.st.gen
    /\ cls' = cls
    /\ lastCall' = [op |-> op, action |-> action, parent_id |-> parent_id,
                    err |-> m.err, val |-> m.val, seq |-> << >>,
                    actions |-> << >>, action_ids |-> << >>,
                    entered |-> m.entered, loops |-> m.loops,
                    registered |-> m.registered, removed |-> m.removed,
                    deepest |-> m.deepest]
    /\ pre' = State
    /\ UNCHANGED <<thr, ncalls>>

PopulateCall ==
    /\ MayPopulate
    /\ BecomesRun(populate_call(Started(State), 0), "populate", NoAction,
                  None)

RegisterCall(action, parent_id) ==
    /\ MayPopulate
    /\ BecomesRun(register_call(Started(State), action, parent_id, 0),
                  "register", action, parent_id)

UnregisterCall(action) ==
    /\ MayPopulate
    /\ BecomesRun(unregister_call(Started(State), action, 0), "unregister",
                  action, None)

UnregisterByAttrCall(action_id) ==
    /\ MayPopulate
    /\ BecomesRun(unregister_by_attr_call(Started(State), action_id, 0),
                  "unregister_by_attr", NoAction, action_id)

GetActionCall(action_id) ==
    /\ MayPopulate
    /\ BecomesRun(get_action_call(Started(State), action_id, 0),
                  "get_action", NoAction, action_id)

\* reset() empties the registry and clears its flag; its run is not
\* recorded.
ResetCall ==
    /\ BecomesRun(Stepped(Started(State), reset(State)), "reset", NoAction,
                  None)

NextCalls ==
    \/ PopulateCall
    \/ \E a \in Known, p \in Ids \cup {None} : RegisterCall(a, p)
    \/ \E a \in Known : UnregisterCall(a)
    \/ \E i \in Ids : UnregisterByAttrCall(i)
    \/ \E i \in Ids : GetActionCall(i)
    \/ ResetCall

SpecCalls == Init /\ [][NextCalls]_vars

(* ------------------------- observing a state --------------------------- *)

ChildrenKeys(s) == SeqToSet(OdKeys(s.children))

\* The ids listed in some root's child list.
ListedChildren(s) ==
    UNION {SeqToSet(s.children[i].val) : i \in 1..Len(s.children)}

\* How many times x occurs in the list l.
Count(l, x) == Cardinality({i \in 1..Len(l) : l[i] = x})

\* The mapping and the two indexes of a state.
Tables(s) == <<s.registry, s.children, s.parents>>

IsRegister == lastCall.op = "register"

IsUnregister == lastCall.op = "unregister"

(* ------------------------------- claims -------------------------------- *)

\* C1: between calls, every registered action id is a root (a key of
\* _children) or a child (a key of _parents), and never both.
C1_RootXorChild ==
    \A id \in DOMAIN registry :
        (id \in ChildrenKeys(State)) # (id \in DOMAIN parents)

\* C1 witness: roots and children are registered side by side, one of the
\* children by a register call.
C1_Witness ==
    /\ IsRegister /\ lastCall.err = NoErr /\ lastCall.parent_id # None
    /\ Cardinality(DOMAIN parents) >= 2
    /\ Len(children) >= 2

C3_AlreadyRegistered ==
    (/\ IsRegister
     /\ lastCall.action.action_id \in DOMAIN pre.registry
     /\ lastCall.parent_id \in ChildrenKeys(pre) \cup {None})
        => /\ lastCall.err = AlreadyRegisteredError
           /\ Tables(State) = Tables(pre)

\* C3 witness: a second instance with the id of a registered child was
\* registered under a root.
C3_Witness ==
    /\ IsRegister /\ lastCall.err = AlreadyRegisteredError
    /\ lastCall.parent_id # None
    /\ lastCall.action.action_id \in DOMAIN pre.parents
    /\ lastCall.action \notin pre.items

C5_Original ==
    (/\ IsRegister
     /\ lastCall.parent_id # None
     /\ lastCall.parent_id \notin DOMAIN pre.registry)
        => /\ lastCall.err = KeyError
           /\ lastCall.action \notin items
           /\ children = pre.children
           /\ parents = pre.parents

\* C5 as amended: register under a parent_id that no action has once the
\* registry is populated raises KeyError and registers nothing: on a
\* populated registry the mapping and both indexes are as they were, on an
\* unpopulated one the call populates it and they hold the defaults only.
C5_UnknownParent ==
    (/\ IsRegister
     /\ lastCall.parent_id # None
     /\ lastCall.parent_id \notin DOMAIN pre.registry
     /\ pre.populated \/ lastCall.parent_id \notin DefaultIds(cls))
        => /\ lastCall.err = KeyError
           /\ pre.populated => Tables(State) = Tables(pre)
           /\ ~pre.populated =>
                 /\ items = DefaultsOf(cls, gen)
                 /\ DOMAIN registry = DefaultIds(cls)
                 /\ ChildrenKeys(State) \cup DOMAIN parents
                        = DefaultIds(cls)

\* C5 witness: a child was refused for an unknown parent while roots and
\* children were registered.
C5_Witness ==
    /\ IsRegister /\ lastCall.err = KeyError
    /\ lastCall.parent_id \notin DOMAIN registry
    /\ lastCall.action.action_id \notin DOMAIN registry
    /\ pre.populated
    /\ DOMAIN parents # {}

\* C6: unregister of a registered root removes the root and every child
\* it had from the mapping and from both indexes, and get_child_actions
\* on the root's id then raises KeyError.
C6_UnregisterRootCascades ==
    (/\ IsUnregister
     /\ lastCall.action \in pre.items
     /\ lastCall.action.action_id \in ChildrenKeys(pre))
        => LET id == lastCall.action.action_id
               gone == {id} \cup SeqToSet(OdGet(pre.children, id))
           IN  /\ lastCall.err = NoErr
               /\ gone \cap DOMAIN registry = {}
               /\ gone \cap ChildrenKeys(State) = {}
               /\ gone \cap DOMAIN parents = {}
               /\ gone \cap ListedChildren(State) = {}
               /\ \A g \in gone : get_action(State, g).val = NoAction
               /\ get_child_actions(State, id).err = KeyError

\* C6 witness: a root with two children was unregistered while another
\* root was registered.
C6_Witness ==
    /\ IsUnregister /\ lastCall.err = NoErr
    /\ lastCall.action.action_id \in ChildrenKeys(pre)
    /\ Len(OdGet(pre.children, lastCall.action.action_id)) = 2
    /\ Len(pre.children) = 2

\* C7: unregister of a registered child removes that child from the
\* mapping, from its parent's list and from _parents, and nothing else:
\* the parent stays a root, the siblings keep their order, the other roots
\* and their children are as before.
C7_UnregisterChildOnly ==
    (/\ IsUnregister
     /\ lastCall.action \in pre.items
     /\ lastCall.action.action_id \in DOMAIN pre.parents)
        => LET id == lastCall.action.action_id
           IN  /\ lastCall.err = NoErr
               /\ registry = [x \in (DOMAIN pre.registry) \ {id} |->
                                pre.registry[x]]
               /\ parents = [x \in (DOMAIN pre.parents) \ {id} |->
                               pre.parents[x]]
               /\ children =
                    [i \in 1..Len(pre.children) |->
                       [key |-> pre.children[i].key,
                        val |-> SelectSeq(pre.children[i].val,
                                          LAMBDA x : x # id)]]

\* C7 witness: the middle one of three children was unregistered.
C7_Witness ==
    /\ IsUnregister /\ lastCall.err = NoErr
    /\ lastCall.action.action_id \in DOMAIN pre.parents
    /\ LET l == OdGet(pre.children, pre.parents[lastCall.action.action_id])
       IN  Len(l) = 3 /\ l[2] = lastCall.action.action_id

\* C8 as claimed: unregister of an action that is not registered raises
\* KeyError and leaves the mapping and both indexes as they were.
C8_Original ==
    (IsUnregister /\ lastCall.action \notin pre.items)
        => /\ lastCall.err = KeyError
           /\ Tables(State) = Tables(pre)

\* C8 as amended: unregister of an action that is not registered raises
\* KeyError; on a populated registry the mapping and both indexes are as
\* they were, on an unpopulated one the call populates it and they hold
\* the defaults only.
C8_NotRegistered ==
    (IsUnregister /\ lastCall.action \notin pre.items)
        => /\ lastCall.err = KeyError
           /\ pre.populated => Tables(State) = Tables(pre)
           /\ ~pre.populated =>
                 /\ items = DefaultsOf(cls, gen)
                 /\ DOMAIN registry = DefaultIds(cls)
                 /\ ChildrenKeys(State) \cup DOMAIN parents
                        = DefaultIds(cls)

\* C8 witness: the refused action has the action_id of a registered child
\* and is another instance.
C8_Witness ==
    /\ IsUnregister /\ lastCall.err = KeyError
    /\ pre.populated
    /\ lastCall.action.action_id \in DOMAIN pre.parents
    /\ lastCall.action \notin pre.items

\* C9: the ids of the mapping are the ids of the two indexes, every listed
\* child is in the mapping, and _parents is the inverse of _children: c
\* maps to p exactly when c occurs, once, in p's list.
C9_NoOrphans ==
    /\ DOMAIN registry = ChildrenKeys(State) \cup DOMAIN parents
    /\ ListedChildren(State) \subseteq DOMAIN registry
    /\ \A i \in 1..Len(children) :
           Count(OdKeys(children), children[i].key) = 1
    /\ \A c \in Ids : \A i \in 1..Len(children) :
           LET n == Count(children[i].val, c)
           IN  /\ n <= 1
               /\ (n = 1) <=> (c \in DOMAIN parents
                                  /\ parents[c] = children[i].key)
    /\ \A c \in DOMAIN parents : parents[c] \in ChildrenKeys(State)

\* C9 witness: a root with children was unregistered and left other
\* actions registered.
C9_Witness ==
    /\ IsUnregister /\ lastCall.err = NoErr
    /\ lastCall.action.action_id \in ChildrenKeys(pre)
    /\ OdGet(pre.children, lastCall.action.action_id) # << >>
    /\ DOMAIN registry # {}
    /\ DOMAIN parents # {}


\* C10: while threads run get_action, get_root_actions or get_child_actions
\* next to a register, unregister, populate or reset call of another
\* thread, no reader observes the registry in the middle of that call: it
\* never finds an id in the lookup mapping that is in neither index, never
\* finds an index entry whose id is missing from the mapping, and
\* get_root_actions and get_child_actions never yield None.
C10_ReadersSeeWholeCalls == \A t \in Threads : ~thr[t].torn

\* C11: after successful register calls with distinct ids, get_action(id)
\* returns, for each registered id, the very instance that was registered
\* under it: the instance a successful register has just been given, and
\* every instance that is still registered.
C11_GetActionReturnsInstance ==
    /\ \A a \in items : get_action(State, a.action_id).val = a
    /\ (IsRegister /\ lastCall.err = NoErr)
         => get_action(State, lastCall.action.action_id).val = lastCall.action
    /\ (lastCall.op = "get_action" /\ lastCall.val # NoAction)
         => /\ lastCall.val \in items
            /\ lastCall.val.action_id = lastCall.parent_id

\* get_action has returned an instance built by an extension, one of
\* several registered actions, where a default of the same id exists.
C11_Witness ==
    /\ lastCall.op = "get_action"
    /\ lastCall.val \in ExtActions
    /\ lastCall.val.action_id = "nested-item"
    /\ Cardinality(items) >= 3

\* C12: get_action(action_id) for an id that is not registered returns
\* None and does not raise, in every registry state.
C12_GetActionNeverRaises ==
    /\ \A i \in Ids :
         /\ get_action(State, i).err = NoErr
         /\ (i \notin DOMAIN get_action(State, i).st.registry
               => get_action(State, i).val = NoAction)
    /\ lastCall.op = "get_action"
         => /\ lastCall.err = NoErr
            /\ (lastCall.parent_id \notin DOMAIN registry
                  => lastCall.val = NoAction)

\* get_action has returned None for an id that is not registered, on a
\* populated registry that holds other actions.
C12_Witness ==
    /\ lastCall.op = "get_action"
    /\ lastCall.val = NoAction
    /\ lastCall.parent_id \notin DOMAIN registry
    /\ populated
    /\ items # {}

\* What list(get_root_actions()) gives on the registry s.
Roots(s) == get_root_actions(s).seq

\* The registered actions of s that have no parent.
RootSet(s) == {a \in s.items : a.action_id \notin DOMAIN s.parents}

\* The sequence l without the element x.
Without(l, x) == SelectSeq(l, LAMBDA y : y # x)

\* The roots the default list defs describes, in list order.
DefaultRoots(defs) == [i \in 1..Len(defs) |-> defs[i].parent]

\* C13: get_root_actions yields exactly the registered root actions, each
\* once, in the order in which they were registered as roots, the defaults
\* first and in the order of the default list; a child is never yielded.
\* The order is stated call by call: a populate gives the default roots, a
\* registered root goes to the end, a registered child changes nothing, an
\* unregistered action leaves the others in place.
C13_RootsInRegistrationOrder ==
    /\ get_root_actions(State).err = NoErr
    /\ SeqToSet(Roots(State)) = RootSet(get_root_actions(State).st)
    /\ \A i, j \in 1..Len(Roots(State)) :
         Roots(State)[i] = Roots(State)[j] => i = j
    /\ lastCall.op = "get_root_actions" => lastCall.seq = Roots(State)
    /\ (lastCall.op = "populate" /\ ~pre.populated)
         => Roots(State) = DefaultRoots(get_defaults(cls, gen))
    /\ (IsRegister /\ lastCall.err = NoErr /\ lastCall.parent_id = None)
         => Roots(State) = Append(Roots(pre), lastCall.action)
    /\ (IsRegister /\ lastCall.err = NoErr /\ lastCall.parent_id # None)
         => Roots(State) = Roots(pre)
    /\ (IsUnregister /\ lastCall.err = NoErr)
         => Roots(State) = Without(Roots(pre), lastCall.action)
    /\ (lastCall.err # NoErr
        \/ lastCall.op \in {"get_action", "get_root_actions",
                            "get_child_actions"})
         => Roots(State) = Roots(pre)

\* get_root_actions has yielded three roots in an order that is not the
\* order of the default list, while a child is registered.
C13_Witness ==
    /\ lastCall.op = "get_root_actions"
    /\ Len(lastCall.seq) = 3
    /\ lastCall.seq[1].action_id = "top-level-item"
    /\ lastCall.seq[3].action_id = "menu-action"
    /\ DOMAIN parents # {}

\* What list(get_child_actions(p)) gives on the registry s.
Kids(s, p) == get_child_actions(s, p).seq

\* The registered actions of s whose parent is p.
KidSet(s, p) ==
    {a \in s.items : a.action_id \in DOMAIN s.parents
                     /\ s.parents[a.action_id] = p}

\* The registry before the last call, once populated.
PrePopulated == populate(pre).st

\* What the last call makes of the child list of p, a root before the call
\* and after it: a child registered under p goes to its end, an
\* unregistered action leaves it, anything else keeps it as it was.
KidsExpected(p) ==
    IF IsRegister /\ lastCall.err = NoErr /\ lastCall.parent_id = p
    THEN Append(Kids(PrePopulated, p), lastCall.action)
    ELSE IF IsUnregister /\ lastCall.err = NoErr
         THEN Without(Kids(PrePopulated, p), lastCall.action)
    ELSE Kids(PrePopulated, p)

\* C14: for every root p, get_child_actions(p) yields exactly the
\* registered children of p, each once, in the order they were registered
\* under p.  The order is stated call by call: a populate gives each default
\* menu its listed children, a child registered under p goes to the end of
\* p's list (also when it was registered there before), an unregistered
\* sibling leaves the others in place, and calls about other parents leave
\* p's list alone.
C14_ChildrenInRegistrationOrder ==
    /\ \A p \in SeqToSet(OdKeys(children)) :
         /\ get_child_actions(State, p).err = NoErr
         /\ SeqToSet(Kids(State, p)) = KidSet(State, p)
         /\ \A i, j \in 1..Len(Kids(State, p)) :
              Kids(State, p)[i] = Kids(State, p)[j] => i = j
         /\ IF OdHas(PrePopulated.children, p)
            THEN Kids(State, p) = KidsExpected(p)
            ELSE Kids(State, p) = << >>
    /\ (lastCall.op = "populate" /\ ~pre.populated)
         => \A i \in 1..Len(get_defaults(cls, gen)) :
              Kids(State, get_defaults(cls, gen)[i].parent.action_id)
                = get_defaults(cls, gen)[i].children
    /\ (lastCall.op = "get_child_actions" /\ lastCall.err = NoErr)
         => lastCall.seq = Kids(State, lastCall.parent_id)

\* get_child_actions has yielded two children of which the last is one
\* that was registered under the parent a second time.
C14_Witness ==
    /\ lastCall.op = "get_child_actions"
    /\ lastCall.parent_id = "menu-action"
    /\ Len(lastCall.seq) = 2
    /\ lastCall.seq[1].action_id = "item-action"
    /\ lastCall.seq[2] = [action_id |-> "nested-item", tag |-> gen]

\* How get_child_actions(p) ends on the registry s.
KidsErr(s, p) == get_child_actions(s, p).err

\* The registry s as get_child_actions(p) leaves it (populated).
KidsState(s, p) == get_child_actions(s, p).st

\* C15: get_child_actions(parent_id) fails with KeyError when parent_id is
\* not registered, with ValueError when it names a registered child, and
\* succeeds when it names a root, with or without children; every id is in
\* exactly one of the three cases.
C15_ChildActionsCases ==
    /\ \A p \in Ids :
         /\ KidsErr(State, p) = KeyError
              <=> p \notin DOMAIN KidsState(State, p).registry
         /\ KidsErr(State, p) = ValueError
              <=> /\ p \in DOMAIN KidsState(State, p).registry
                  /\ p \in DOMAIN KidsState(State, p).parents
         /\ KidsErr(State, p) = NoErr
              <=> /\ p \in DOMAIN KidsState(State, p).registry
                  /\ OdHas(KidsState(State, p).children, p)
         /\ KidsErr(State, p) \in {KeyError, ValueError, NoErr}
    /\ lastCall.op = "get_child_actions"
         => /\ lastCall.err = KidsErr(State, lastCall.parent_id)
            /\ lastCall.err = KeyError
                 <=> lastCall.parent_id \notin DOMAIN registry
            /\ lastCall.err = ValueError
                 <=> lastCall.parent_id \in DOMAIN parents
            /\ lastCall.err = NoErr
                 <=> OdHas(children, lastCall.parent_id)

\* get_child_actions has refused the id of a registered child.
C15_Witness ==
    /\ lastCall.op = "get_child_actions"
    /\ lastCall.err = ValueError
    /\ lastCall.parent_id \in DOMAIN parents
    /\ pre.populated

\* The calls that start with self.populate() and do nothing else to the
\* registry.
PopulatingCalls == {"populate", "get_action", "get_root_actions",
                    "get_child_actions"}

\* C16: populate is idempotent and registers the defaults once per
\* populated lifetime: populate, called directly or through get_action,
\* get_root_actions or get_child_actions on a populated registry, changes
\* neither the mapping nor an index, builds no default again and does not
\* raise AlreadyRegisteredError; the defaults are built only by a call that
\* finds the registry not populated.
C16_PopulateIdempotent ==
    /\ populated => populate(State) = Ok(State)
    /\ populate(populate(State).st) = Ok(populate(State).st)
    /\ (lastCall.op \in PopulatingCalls /\ pre.populated)
         => /\ Tables(State) = Tables(pre)
            /\ items = pre.items
            /\ gen = pre.gen
            /\ populated
            /\ lastCall.err # AlreadyRegisteredError
    /\ lastCall.op = "populate" => lastCall.err = NoErr
    /\ gen # pre.gen => (~pre.populated /\ gen = pre.gen + 1)

\* populate has been called on a populated registry from which a default
\* was unregistered, and has not brought the default back.
C16_Witness ==
    /\ lastCall.op = "populate"
    /\ pre.populated
    /\ cls = "TestingActionRegistry"
    /\ "menu-action" \notin DOMAIN registry
    /\ "top-level-item" \in DOMAIN registry

\* C18: after reset(), from any reachable state of the registry, populated
\* or not, with or without actions registered after the defaults, the
\* lookup mapping, the parent-to-children index and the child-to-parent
\* index are empty and the populated flag is cleared.
C18_ResetEmpties ==
    /\ reset(State).err = NoErr
    /\ Tables(reset(State).st) = <<EmptyDict, << >>, EmptyDict>>
    /\ reset(State).st.items = {}
    /\ ~reset(State).st.populated
    /\ lastCall.op = "reset"
         => /\ lastCall.err = NoErr
            /\ registry = EmptyDict
            /\ children = << >>
            /\ parents = EmptyDict
            /\ items = {}
            /\ ~populated

\* reset has been called on a populated registry that held, besides a
\* default, an extension's root and an extension's child.
C18_Witness ==
    /\ lastCall.op = "reset"
    /\ pre.populated
    /\ \E a \in ExtActions : a \in pre.items /\ OdHas(pre.children, a.action_id)
    /\ \E a \in ExtActions : a \in pre.items /\ a.action_id \in DOMAIN pre.parents
    /\ "top-level-item" \in DOMAIN pre.registry
    /\ ~populated

\* The ids of the actions in the sequence l.
IdsOf(l) == [i \in 1..Len(l) |-> l[i].action_id]

\* The registry s holds exactly what the default list defs describes: the
\* entries' parents as roots in list order, each with the children listed
\* for it, in listed order, and nothing else.
HoldsDefaults(s, defs) ==
    /\ OdKeys(s.children) = IdsOf(DefaultRoots(defs))
    /\ \A i \in 1..Len(defs) :
         /\ OdGet(s.children, defs[i].parent.action_id)
              = IdsOf(defs[i].children)
         /\ \A c \in SeqToSet(defs[i].children) :
              /\ c.action_id \in DOMAIN s.parents
              /\ s.parents[c.action_id] = defs[i].parent.action_id
         /\ ~defs[i].tuple => defs[i].children = << >>
    /\ DOMAIN s.parents
         = UNION {SeqToSet(IdsOf(defs[i].children)) : i \in 1..Len(defs)}
    /\ s.items = UNION {{defs[i].parent} \cup SeqToSet(defs[i].children) :
                          i \in 1..Len(defs)}
    /\ \A a \in s.items : s.registry[a.action_id] = a
    /\ DOMAIN s.registry = {a.action_id : a \in s.items}

\* The structure of the review request registry's defaults.
ReviewRequestDefaults ==
    << [key |-> "close-review-request-action",
        val |-> << "submit-review-request-action",
                   "discard-review-request-action",
                   "delete-review-request-action" >>],
       [key |-> "update-review-request-action",
        val |-> << "upload-diff-action", "upload-file-action" >>],
       [key |-> "download-diff-action", val |-> << >>],
       [key |-> "review-action", val |-> << >>],
       [key |-> "general-comment-action", val |-> << >>],
       [key |-> "ship-it-action", val |-> << >>] >>

\* C17: populate() on a fresh registry produces exactly the structure the
\* default list describes: a bare entry becomes a childless root, a
\* (parent, children) pair a root whose child list is the pair's children
\* in listed order, and the roots are in list order.  For the review
\* request registry the roots are close, update, download-diff, review,
\* general-comment, ship-it, with submit, discard, delete under close and
\* upload-diff, upload-file under update.
C17_PopulateBuildsDefaults ==
    /\ ~populated
         => /\ populate(State).err = NoErr
            /\ HoldsDefaults(populate(State).st, get_defaults(cls, gen + 1))
            /\ populate(State).st.children = ReviewRequestDefaults
    /\ (lastCall.op = "populate" /\ ~pre.populated)
         => /\ lastCall.err = NoErr
            /\ populated
            /\ HoldsDefaults(State, get_defaults(cls, gen))
            /\ children = ReviewRequestDefaults
            /\ Roots(State) = DefaultRoots(get_defaults(cls, gen))
            /\ \A i \in 1..Len(get_defaults(cls, gen)) :
                 Kids(State, get_defaults(cls, gen)[i].parent.action_id)
                   = get_defaults(cls, gen)[i].children

\* populate has built the defaults of the review request registry anew
\* after a reset.
C17_Witness ==
    /\ lastCall.op = "populate"
    /\ ~pre.populated
    /\ populated
    /\ gen = 2
    /\ Len(children) = 6
    /\ Cardinality(DOMAIN parents) = 5

\* The last call found a registry that had been reset and not populated
\* since.
AfterReset == ~pre.populated /\ pre.gen >= 1

\* C19, as claimed: on a registry whose defaults are the menu close with
\* the children submit, discard, delete, get_root_actions() after reset()
\* returns an empty sequence, and a later populate() restores the menu with
\* its three children in that order.
C19_Original ==
    /\ (lastCall.op = "get_root_actions" /\ AfterReset)
         => lastCall.seq = << >>
    /\ (lastCall.op = "populate" /\ AfterReset)
         => /\ OdHas(children, "close-review-request-action")
            /\ OdGet(children, "close-review-request-action")
                 = << "submit-review-request-action",
                      "discard-review-request-action",
                      "delete-review-request-action" >>

\* C19, amended: on a registry whose defaults hold the menu close with the
\* children submit, discard, delete, reset() leaves no root in _children;
\* get_root_actions() after reset() populates the registry itself and
\* yields the default roots, built anew, close first; after it, as after a
\* populate() on the reset registry, close has the children submit,
\* discard, delete in that order.
C19_ResetThenRepopulate ==
    /\ lastCall.op = "reset" => children = << >>
    /\ (lastCall.op \in {"get_root_actions", "populate"} /\ AfterReset)
         => /\ populated
            /\ gen = pre.gen + 1
            /\ children = ReviewRequestDefaults
            /\ OdGet(children, "close-review-request-action")
                 = << "submit-review-request-action",
                      "discard-review-request-action",
                      "delete-review-request-action" >>
            /\ Kids(State, "close-review-request-action")
                 = get_defaults(cls, gen)[1].children
    /\ (lastCall.op = "get_root_actions" /\ AfterReset)
         => /\ lastCall.seq = DefaultRoots(get_defaults(cls, gen))
            /\ lastCall.seq[1]
                 = [action_id |-> "close-review-request-action", tag |-> gen]

\* get_root_actions has been called on a registry that was reset after
\* extensions had changed it, and has yielded the six default roots.
C19_Witness ==
    /\ lastCall.op = "get_root_actions"
    /\ AfterReset
    /\ Len(lastCall.seq) = 6
    /\ lastCall.seq[1].tag = 2

\* C20: a register_actions(actions, parent_id) call that raises leaves the
\* registry as it was before the call, the mapping and both indexes, and no
\* action of the failed collection remains registered.  Stated for calls
\* on a populated registry, where the call's own population of the
\* registry changes nothing.
C20_FailedBatchRollsBack ==
    (lastCall.op = "register_actions" /\ lastCall.err # NoErr
     /\ pre.populated)
      => /\ Tables(State) = Tables(pre)
         /\ items = pre.items
         /\ \A a \in SeqToSet(lastCall.actions) :
              a \in items => a \in pre.items

(* ------------------------------ rendering ------------------------------ *)

\* The methods a call evaluated, in order.
Evaluated(r) == {r.trace[i] : i \in 1..Len(r.trace)}

IsRender == lastCall.op = "render"

\* C21: render leaves the context as it found it, the number of scopes and
\* the visible keys with their values, on every exit path: should_render
\* false, a rendered template, a getter or the template raising, and
\* should_render raising.
C21_RenderRestoresContext ==
    IsRender =>
        /\ Len(lastCall.rendered.ctx) = Len(lastCall.context)
        /\ CtxKeys(lastCall.rendered.ctx) = CtxKeys(lastCall.context)
        /\ lastCall.rendered.ctx = lastCall.context

\* A render into a context of two scopes that pushed a third one and then
\* had get_label raise.
C21_Witness ==
    /\ IsRender
    /\ lastCall.err = Exception
    /\ Len(lastCall.context) = 2
    /\ lastCall.rendered.trace = <<"should_render", "push", "get_label", "pop">>

\* C22: render returns empty content when should_render is false, pushing
\* no scope and evaluating none of get_label, get_url and get_hidden; it
\* returns the output of the template only when should_render is true.
C22_RenderOnlyWhenShouldRender ==
    IsRender =>
        /\ (lastCall.object.should_render = "False" =>
                /\ lastCall.err = NoErr
                /\ lastCall.rendered.out = << >>
                /\ lastCall.rendered.trace = <<"should_render">>)
        /\ (lastCall.rendered.out # << >> =>
                /\ lastCall.object.should_render = "True"
                /\ lastCall.rendered.out[1].template
                       = template_name(lastCall.object))

\* A render of an action whose should_render is false and whose get_label
\* would raise.
C22_Witness ==
    /\ IsRender
    /\ lastCall.object.should_render = "False"
    /\ lastCall.object.raises = {"get_label"}
    /\ lastCall.rendered.out = << >>

\* The markup of the children that render without raising, in child order,
\* each child rendered by render(context).
RECURSIVE ChildMarkup(_, _, _)
ChildMarkup(s, ctx, kids) ==
    IF kids = << >> THEN << >>
    ELSE (IF render(s, Head(kids), ctx).err = NoErr
          THEN render(s, Head(kids), ctx).out ELSE << >>)
         \o ChildMarkup(render(s, Head(kids), ctx).st, ctx, Tail(kids))

IsRenderChildActions ==
    /\ lastCall.op = "render_child_actions"
    /\ lastCall.object.type = "list"
    /\ CtxHas(lastCall.context, "request")

\* C23: the child-rendering step, given a list of child actions and a
\* context that holds the request, does not raise, and its output is the
\* concatenation, in child order, of the markup of every child whose
\* render does not raise.
C23_ChildFailuresIsolated ==
    IsRenderChildActions =>
        /\ lastCall.err = NoErr
        /\ lastCall.rendered.out
               = ChildMarkup(pre, lastCall.context, lastCall.object.items)

\* The last call rendered a menu and reached the query of its children.
IsMenuRender ==
    /\ IsRender
    /\ lastCall.object.kind = "menu"
    /\ "child_actions" \in Evaluated(lastCall.rendered)

\* C24: the children a menu's render places in its render context are
\* get_child_actions(menu.action_id) of the registry at that render, so a
\* child registered or unregistered since the previous render is present
\* or absent; when that query raises, so does the render.
C24_ChildrenResolvedLive ==
    IsMenuRender =>
        /\ lastCall.err = NoErr =>
              /\ lastCall.rendered.values.child_actions
                     = Kids(pre, lastCall.object.self.action_id)
              /\ lastCall.rendered.values.child_actions
                     = Kids(State, lastCall.object.self.action_id)
        /\ KidsErr(pre, lastCall.object.self.action_id) # NoErr
              => lastCall.err = KidsErr(pre, lastCall.object.self.action_id)

\* A render of the menu that places a child registered by an extension
\* after the default child, and no other render context than that.
C24_Witness ==
    /\ IsMenuRender
    /\ lastCall.err = NoErr
    /\ Len(lastCall.rendered.values.child_actions) = 2
    /\ lastCall.rendered.values.child_actions[2].tag < 0

\* What a caller sees of a render: the exception, the markup, the
\* dictionary given to the template and the context left behind.
Outcome(r) == <<r.err, r.out, r.values, r.ctx>>

IsShouldRender ==
    /\ lastCall.op = "should_render"
    /\ lastCall.object.class \in ReviewRequestClasses

\* The site is read-only for the user of the last call: read-only mode is
\* active, the user is authenticated and not a superuser.
ReadOnlyForUser ==
    /\ lastCall.context.site_read_only
    /\ lastCall.context.user.is_authenticated
    /\ ~lastCall.context.user.is_superuser

\* C25: should_render of every review request action that is not exempt
\* (render_in_read_only_mode false) returns false when the site is
\* read-only for the user, whatever the other inputs are.
C25_HiddenInReadOnlyMode ==
    (IsShouldRender /\ ReadOnlyForUser
        /\ ~render_in_read_only_mode(lastCall.object))
    => lastCall.result = Returns(FALSE)

\* An action whose own conditions all hold, the close menu asked by the
\* submitter of a pending review request, is refused in read-only mode.
C25_Witness ==
    /\ IsShouldRender
    /\ ReadOnlyForUser
    /\ lastCall.object.class = "CloseMenuAction"
    /\ lastCall.context.user.is_submitter
    /\ lastCall.context.status = PENDING_REVIEW
    /\ lastCall.result = Returns(FALSE)

\* The last call was made for a superuser, on an action that is not exempt
\* from the read-only policy.
IsSuperuserCall ==
    /\ IsShouldRender
    /\ ~render_in_read_only_mode(lastCall.object)
    /\ lastCall.context.user.is_superuser

\* The context of the last call with read-only mode switched.
OtherMode == [lastCall.context EXCEPT !.site_read_only = ~@]

\* The context of the last call with read-only mode off.
ModeOff == [lastCall.context EXCEPT !.site_read_only = FALSE]

\* C26, as claimed: should_render of a review request action that is not
\* exempt returns true for a superuser, read-only mode active or not.
C26_Original == IsSuperuserCall => lastCall.result = Returns(TRUE)

\* C26: for a superuser the read-only policy of ReviewRequestAction
\* returns true whether read-only mode is active or not, so should_render
\* of an action that is not exempt returns what it returns with read-only
\* mode off: true for the classes that add no condition, the class's own
\* condition for the others.
C26_SuperuserNotGated ==
    IsSuperuserCall =>
        /\ super_should_render(lastCall.object, lastCall.context)
              = Returns(TRUE)
        /\ lastCall.result = should_render(lastCall.object, OtherMode)
        /\ lastCall.result = should_render(lastCall.object, ModeOff)
        /\ lastCall.object.class \notin Overrides
              => lastCall.result = Returns(TRUE)

\* A superuser, in read-only mode, is shown the action to submit a public
\* review request.
C26_Witness ==
    /\ IsSuperuserCall
    /\ lastCall.context.site_read_only
    /\ lastCall.object.class = "SubmitAction"
    /\ lastCall.context.public
    /\ lastCall.result = Returns(TRUE)

\* C27: for every class that overrides should_render, the review request
\* actions and the dictionary action, should_render(context) true implies
\* that the should_render of its superclass is true for the context.
C27_OverridesCallUp ==
    (lastCall.op = "should_render" /\ lastCall.object.class \in Overrides
        /\ lastCall.result = Returns(TRUE))
    => super_should_render(lastCall.object, lastCall.context) = Returns(TRUE)

Shape(s) ==
    [roots |-> IdsOf(Roots(s)),
     kids |-> [p \in {a.action_id : a \in RootSet(s)} |-> IdsOf(Kids(s, p))],
     ids |-> {a.action_id : a \in s.items},
     keys |-> DOMAIN s.registry,
     parents |-> s.parents]

\* A registry of the same class, freshly constructed and populated.
FreshlyPopulated == populate(NewRegistry(cls, 0)).st

\* The registry holds something a fresh one does not, or lacks something
\* a fresh one holds.
Dirty(s) == s.populated /\ Shape(s) # Shape(FreshlyPopulated)

\* C30: from every state, reset() followed by populate() succeeds and
\* gives a registry whose roots, child lists and their orders are those of
\* a freshly constructed, freshly populated registry of the class; what a
\* populate call makes of a reset registry is that.
C30_ResetThenPopulateIsFresh ==
    /\ reset(State).err = NoErr
    /\ populate(reset(State).st).err = NoErr
    /\ Shape(populate(reset(State).st).st) = Shape(FreshlyPopulated)
    /\ (lastCall.op = "reset" /\ lastCall.err = NoErr)
          => Shape(populate(State).st) = Shape(FreshlyPopulated)
    /\ (lastCall.op = "populate" /\ AfterReset)
          => Shape(State) = Shape(FreshlyPopulated)

\* A reset of a registry of the testing class that held an action of an
\* extension and had lost a default.
C30_Witness ==
    /\ lastCall.op = "reset"
    /\ lastCall.err = NoErr
    /\ cls = "TestingActionRegistry"
    /\ Dirty(pre)
    /\ \E a \in pre.items : a.tag < 0
    /\ "nested-item" \notin DOMAIN pre.registry
    /\ Shape(populate(State).st) = Shape(FreshlyPopulated)

(* ------------------------- two calls at a time ------------------------- *)

\* No thread is inside a call.
Quiescent == \A t \in Threads : thr[t].stack = << >>

\* What every sequence of whole calls leaves: each registered id is a
\* root or has a parent, never both; each parent is a registered root;
\* each root lists its children and nothing else; and the mapping holds
\* the registered actions under their ids.
WellFormed(s) ==
    /\ DOMAIN s.registry = {a.action_id : a \in s.items}
    /\ \A id \in DOMAIN s.registry :
         OdHas(s.children, id) # (id \in DOMAIN s.parents)
    /\ \A i \in 1..Len(s.children) :
         /\ s.children[i].key \in DOMAIN s.registry
         /\ \A c \in SeqToSet(s.children[i].val) :
              /\ c \in DOMAIN s.parents
              /\ s.parents[c] = s.children[i].key
    /\ \A c \in DOMAIN s.parents :
         /\ c \in DOMAIN s.registry
         /\ OdHas(s.children, s.parents[c])
         /\ c \in SeqToSet(OdGet(s.children, s.parents[c]))

\* C31: register, unregister, populate and reset running at the same time
\* leave what some sequential order of them leaves: once every call has
\* returned, no action is in the mapping whose parent is gone or that is
\* in no index, and no index names an action that is not registered.
C31_MutationsSerialized == Quiescent => WellFormed(State)

\* Thread t is inside the population it started: defaults of the list are
\* still to be registered.
Populating(t) ==
    \E i \in 1..Len(thr[t].stack) :
        /\ thr[t].stack[i].op = "base_register"
        /\ thr[t].stack[i].a.tag > 0

\* Thread u enters get_root_actions or get_child_actions, finds the
\* populated flag set and goes on to read the indexes.
SeesPopulated(u) ==
    /\ At(u, "get_root_actions") \/ At(u, "get_child_actions")
    /\ Top(u).i = 0
    /\ populated
    /\ thr'[u] # thr[u]

\* C32: lazy population is not observable half-done: no thread that calls
\* get_root_actions or get_child_actions finds the populated flag set
\* while another thread has registered only part of the default list, so
\* every reader sees all defaults.
C32_PopulationNotSeenHalfDone ==
    [][\A u \in Threads :
          SeesPopulated(u)
              => \A t \in Threads \ {u} : ~Populating(t)]_vars

(* --------------------------- reads are pure ---------------------------- *)

\* The last call was a read.
IsRead == lastCall.op \in {"get_action", "get_root_actions",
                           "get_child_actions"}

\* C33, as claimed: no read changes the mapping or an index beyond the lazy
\* population, and get_action changes nothing at all, also on a registry
\* that is not populated yet.
C33_Original ==
    /\ IsRead => Tables(State) = Tables(PrePopulated)
    /\ lastCall.op = "get_action" => State = pre

\* C33: get_action, get_root_actions and get_child_actions, whether they
\* return or raise, leave the registry as populate() alone would leave it:
\* on a populated registry they change nothing at all, and on a registry
\* not populated yet each of them, get_action included, registers the
\* defaults and sets the flag, and changes nothing else.
C33_ReadsOnlyPopulate ==
    IsRead =>
        /\ State = PrePopulated
        /\ pre.populated => State = pre
        /\ ~pre.populated => populated

\* A get_action call on a registry not populated yet, which registered the
\* defaults and found the action among them.
C33_Witness ==
    /\ lastCall.op = "get_action"
    /\ ~pre.populated
    /\ lastCall.val # NoAction
    /\ Tables(State) # Tables(pre)
    /\ State = PrePopulated

(* ------------------------- the order is stable ------------------------- *)

\* The registry after one more read of any kind: a lookup, a listing of
\* the roots, a listing of the children of an id, or populate().
AfterAnyRead ==
    {get_action(State, i).st : i \in Ids}
    \cup {get_child_actions(State, p).st : p \in Ids}
    \cup {get_root_actions(State).st, populate(State).st}

\* C34: a get_root_actions call that follows another one, with no
\* register, unregister or reset between them, returns the same sequence
\* of actions, and so do two get_child_actions calls for the same parent;
\* other reads in between change nothing of it.
C34_OrderStable ==
    /\ (lastCall.op = "get_root_actions" /\ lastCall.err = NoErr)
          => /\ Roots(State) = lastCall.seq
             /\ \A s \in AfterAnyRead : Roots(s) = lastCall.seq
    /\ (lastCall.op = "get_child_actions" /\ lastCall.err = NoErr)
          => /\ Kids(State, lastCall.parent_id) = lastCall.seq
             /\ \A s \in AfterAnyRead :
                  Kids(s, lastCall.parent_id) = lastCall.seq

\* A get_root_actions call on a populated registry, left as it was by the
\* call before it, that returns several roots, the last one registered by
\* an extension.
C34_Witness ==
    /\ lastCall.op = "get_root_actions"
    /\ lastCall.err = NoErr
    /\ pre.populated
    /\ pre = State
    /\ Len(lastCall.seq) >= 2
    /\ lastCall.seq[Len(lastCall.seq)].tag < 0

(* ---------------------- register, then unregister ---------------------- *)

\* The last call registered an action on a populated registry.
Registered == IsRegister /\ lastCall.err = NoErr /\ pre.populated

\* The registry after unregister(a) for the action a of the last call.
Undone == unregister(State, lastCall.action)

\* C35: on a populated registry, a successful register(a) or
\* register(a, parent_id) followed by unregister(a) restores the mapping,
\* the parent->children index with its order and the child->parent index
\* exactly, and the same registration then succeeds again.
C35_RegisterUnregisterRoundTrip ==
    Registered =>
        /\ Undone.err = NoErr
        /\ Tables(Undone.st) = Tables(pre)
        /\ Undone.st = pre
        /\ register(Undone.st, lastCall.action, lastCall.parent_id).err = NoErr
        /\ register(Undone.st, lastCall.action, lastCall.parent_id).st = State

\* An action registered under a root that already had a child.
C35_Witness ==
    /\ Registered
    /\ lastCall.parent_id # None
    /\ Len(Kids(State, lastCall.parent_id)) = 2
    /\ Undone.st = pre

(* ----------------------- the order of the checks ----------------------- *)

\* The last call was a register of an action whose id was registered.
RegisterOfKnownId ==
    /\ IsRegister
    /\ lastCall.action.action_id \in DOMAIN pre.registry

\* C36: register checks parent_id before uniqueness: for an action_id that
\* is already registered, a parent_id that is not registered gives
\* KeyError, a parent_id that names a child gives DepthLimitExceededError,
\* and only a parent_id that is absent or names a root gives
\* AlreadyRegisteredError; in the three cases nothing is changed.
C36_ParentChecksFirst ==
    RegisterOfKnownId =>
        /\ lastCall.err =
              IF lastCall.parent_id = None
              THEN AlreadyRegisteredError
              ELSE IF lastCall.parent_id \notin DOMAIN pre.registry
                   THEN KeyError
              ELSE IF lastCall.parent_id \notin ChildrenKeys(pre)
                   THEN DepthLimitExceededError
              ELSE AlreadyRegisteredError
        /\ State = pre

\* A registered root registered again under a parent_id that names a
\* child: the depth error, not the uniqueness error.
C36_Witness ==
    /\ RegisterOfKnownId
    /\ lastCall.action \in pre.items
    /\ lastCall.parent_id \in DOMAIN pre.parents
    /\ lastCall.err = DepthLimitExceededError
    /\ State = pre

(* ----------------------- a faulty list of defaults ----------------------- *)

\* The list populate() walks when it runs on the registry of the call.
FaultyDefaults == get_defaults(pre.cls, pre.gen + 1)

\* The registry once populate() has set its flag and registered the entries
\* before the failing one, here the menu with its child.
BeforeFailingEntry ==
    PopulateItem([pre EXCEPT !.populated = TRUE, !.gen = @ + 1],
                 FaultyDefaults[1]).st

\* populate() called on a registry whose flag is clear / is set.
FirstPopulate == lastCall.op = "populate" /\ ~pre.populated
LaterPopulate == lastCall.op = "populate" /\ pre.populated

\* C37: when registering a default fails during populate(), the call raises
\* the error register raises for that entry, the defaults registered before
\* it stay registered, the populated flag stays set and the entries after it
\* are not registered, by that call or by a later populate(), which returns
\* without error and changes nothing.
C37_FailedPopulateIsNotRetried ==
    /\ FirstPopulate =>
          /\ lastCall.err = AlreadyRegisteredError
          /\ lastCall.err = register_populated(BeforeFailingEntry,
                                FaultyDefaults[2].parent, None).err
          /\ State = BeforeFailingEntry
          /\ populated
          /\ \A i \in DOMAIN FaultyDefaults[1].children :
                 FaultyDefaults[1].children[i].action_id \in DOMAIN registry
          /\ FaultyDefaults[1].parent.action_id \in DOMAIN registry
          /\ FaultyDefaults[3].parent.action_id \notin DOMAIN registry
    /\ LaterPopulate =>
          /\ lastCall.err = NoErr
          /\ State = pre
          /\ populated

\* A later populate() on a registry whose first population failed: its last
\* default is still missing.
C37_Witness ==
    /\ LaterPopulate
    /\ cls = "FaultyActionRegistry"
    /\ gen = 1
    /\ items = BeforeFailingEntry.items
    /\ "top-level-item" \notin DOMAIN registry

(* ------------------------ populate within populate ----------------------- *)

\* The last call is one whose run was recorded.
IsRun ==
    lastCall.op \in {"populate", "register", "unregister",
                     "unregister_by_attr", "get_action"}

\* The populate() calls the loop of populate makes below itself: one by
\* the base class's register of every default, one more by the get_action
\* of every child.
NestedPopulates(defaults) ==
    Len(defaults)
    + 2 * Cardinality(UNION {SeqToSet(defaults[i].children) :
                               i \in DOMAIN defaults})

\* The registry the call worked on once it was populated.
PopulatedBefore == populate(pre).st

\* The children of the action the base class unregistered first.
ChildrenOfRemoved ==
    IF OdHas(PopulatedBefore.children, lastCall.removed[1].action_id)
    THEN {PopulatedBefore.registry[c] :
            c \in SeqToSet(OdGet(PopulatedBefore.children,
                                 lastCall.removed[1].action_id))}
    ELSE {}

\* C38: a call terminates although the register and get_action calls made
\* by populate() enter populate() again: on a registry whose flag is clear
\* exactly one populate() goes past the test of the flag, every nested one
\* returns at once, and every default is registered exactly once; on a
\* populated registry none goes past the test.  populate() leaves the
\* registry the loop run without nested calls leaves.  A successful
\* unregister of a root with n children removes exactly the root and its
\* n children, n + 1 actions.
C38_NestedPopulateTerminates ==
    IsRun =>
      /\ lastCall.err # RecursionError
      /\ lastCall.deepest < MaxDepth
      /\ ~pre.populated =>
            /\ lastCall.loops = 1
            /\ lastCall.entered >=
                  1 + NestedPopulates(get_defaults(pre.cls, pre.gen + 1))
            /\ \A x \in DefaultsOf(pre.cls, pre.gen + 1) :
                  Count(lastCall.registered, x) = 1
            /\ populated
      /\ pre.populated => lastCall.loops = 0
      /\ lastCall.op = "populate" =>
            /\ State = populate(pre).st
            /\ lastCall.err = populate(pre).err
            /\ ~pre.populated =>
                  lastCall.entered =
                    1 + NestedPopulates(get_defaults(pre.cls, pre.gen + 1))
            /\ pre.populated => lastCall.entered = 1
      /\ (lastCall.err = NoErr /\ lastCall.removed # << >>) =>
            /\ Len(lastCall.removed) = Cardinality(ChildrenOfRemoved) + 1
            /\ SeqToSet(lastCall.removed)
                  = {lastCall.removed[1]} \cup ChildrenOfRemoved
            /\ items = PopulatedBefore.items \ SeqToSet(lastCall.removed)
            /\ Cardinality(PopulatedBefore.items) - Cardinality(items)
                  = Cardinality(ChildrenOfRemoved) + 1

\* unregister_by_attr of the menu on a registry that was not populated: the
\* call populated it through nested calls, then removed the menu and its
\* child.
C38_Witness ==
    /\ lastCall.op = "unregister_by_attr"
    /\ lastCall.parent_id = "menu-action"
    /\ ~pre.populated
    /\ cls = "TestingActionRegistry"
    /\ lastCall.err = NoErr
    /\ lastCall.loops = 1
    /\ lastCall.entered > 1
    /\ Len(lastCall.registered) = 3
    /\ Len(lastCall.removed) = 2
    /\ DOMAIN registry = {"top-level-item"}

====
